---- MODULE Spec2Model ----
(***************************************************************************)
(* The chunk proposer of the rollup relayer                                *)
(* (rollup/internal/controller/watcher/chunk_proposer.go).                 *)
(*                                                                         *)
(* State: the l2_block table, the chunk table, the wall clock and the      *)
(* TryProposeChunk call that is under way or has just returned.  A new L2  *)
(* block is imported and the clock advances at any time; TryProposeChunk   *)
(* is one action per round trip it makes: the three reads of the store,    *)
(* the contract call and the code lookup of the L1 oracle, the packing     *)
(* with its reading of the clock, and the transaction.                     *)
(* The rollup contract the batches of chunks go to (ScrollChain) has a     *)
(* specification of its own further down.                                  *)
(***************************************************************************)
EXTENDS Integers, Sequences, FiniteSets, TLC

\* maxBlockNumPerChunk is the proposer's field of that name, set once by
\* NewChunkProposer; rowAcc is a chunkRowConsumption on its own with the
\* outcome of the last add and the last max on it; rollup is the storage of
\* the ScrollChain contract with the last call made to it; proverTasks is
\* the coordinator's BaseProverTask: the public keys that hold a prover task
\* and the last checkParameter call.
VARIABLES l2Blocks, dbChunks, clock, cycle, maxBlockNumPerChunk, rowAcc, rollup,
          proverTasks

vars == <<l2Blocks, dbChunks, clock, cycle, maxBlockNumPerChunk, rowAcc, rollup, proverTasks>>

(***************************************************************************)
(* Bounds of the model.                                                    *)
(***************************************************************************)
MaxBlocks == 2
MaxTime == 2
MaxWideBlocks == 3
MaxRowTotal == 4
MaxBatches == 2

(***************************************************************************)
(* Configuration of the proposer (config.ChunkProposerConfig).             *)
(***************************************************************************)
\* the values of cfg.MaxBlockNumPerChunk the proposer is constructed with
maxBlockNumPerChunkSmall == 2
maxBlockNumPerChunkWide == 3
maxTxNumPerChunk == 3
maxL1CommitGasPerChunk == 6
maxL1CommitCalldataSizePerChunk == 3
maxRowConsumptionPerChunk == 4
chunkTimeoutSec == 1
\* gasCostIncreaseMultiplier is the float 1.5, kept as a fraction
gasCostIncreaseMultiplierNum == 3
gasCostIncreaseMultiplierDen == 2

(***************************************************************************)
(* Blocks.  A wrapped block carries what the proposer reads from it.       *)
(* rowConsumption is a *RowConsumption: nil, or a list of                  *)
(* (sub-circuit name, row number) entries.                                 *)
(***************************************************************************)
SubCircuits == {"A", "B"}

RC(a, b) == [isNil |-> FALSE,
             usage |-> <<[Name |-> "A", RowNumber |-> a], [Name |-> "B", RowNumber |-> b]>>]

NilRC == [isNil |-> TRUE, usage |-> <<>>]

Profile(tx, cd, gas, used, rc) ==
    [txNum |-> tx, calldataSize |-> cd, commitGas |-> gas, gasUsed |-> used, rowConsumption |-> rc]

\* The block contents the upstream pipeline may deliver: a light block, a
\* block heavy in transactions and one heavy in commit gas (two of a kind pass
\* the ceiling), a block that passes the transaction ceiling on its own, one
\* that passes the commit gas ceiling on its own, one that passes the calldata
\* and the row ceilings on its own, and one without row data.
BlockProfiles ==
    << Profile(1, 1, 1, 1, RC(1, 1)),
       Profile(2, 1, 1, 2, RC(1, 0)),
       Profile(1, 1, 2, 1, RC(0, 1)),
       Profile(4, 1, 1, 4, RC(1, 0)),
       Profile(1, 1, 4, 1, RC(1, 0)),
       Profile(1, 4, 1, 1, RC(0, 5)),
       Profile(1, 1, 1, 1, NilRC) >>

\* the blocks that are well formed and fit a chunk on their own
WellFormedProfiles == 1..3

NoHash == <<>>

\* a *types.Chunk that is nil
NilChunk ==
    [isNil |-> TRUE, Blocks |-> <<>>, LastAppliedL1Block |-> 0, L1BlockRangeHash |-> NoHash]

\* orm.L2Block -> types.WrappedBlock: the row without its chunk_hash column
WrappedBlock(row) ==
    [number |-> row.number, time |-> row.time, txNum |-> row.txNum,
     calldataSize |-> row.calldataSize, commitGas |-> row.commitGas,
     gasUsed |-> row.gasUsed, rowConsumption |-> row.rowConsumption,
     LastAppliedL1Block |-> row.LastAppliedL1Block]

(***************************************************************************)
(* chunkRowConsumption                                                     *)
(***************************************************************************)
EmptyCrc == [c \in SubCircuits |-> 0]

\* addEntries storing an entry's row number instead of adding it
RECURSIVE addEntries_lastWins(_, _)
addEntries_lastWins(crc, usage) ==
    IF usage = <<>> THEN crc
    ELSE addEntries_lastWins([crc EXCEPT ![Head(usage).Name] = Head(usage).RowNumber],
                             Tail(usage))

RECURSIVE addEntries(_, _)
addEntries(crc, usage) ==
    IF usage = <<>> THEN crc
    ELSE addEntries([crc EXCEPT ![Head(usage).Name] = @ + Head(usage).RowNumber],
                    Tail(usage))

\* crcAdd taking a nil vector for an empty one
crcAdd_nilAsEmpty(crc, rowConsumption) ==
    [err |-> FALSE, crc |-> addEntries(crc, rowConsumption.usage)]

\* chunkRowConsumption.add
crcAdd(crc, rowConsumption) ==
    IF rowConsumption.isNil
    THEN [err |-> TRUE, crc |-> crc]
    ELSE [err |-> FALSE, crc |-> addEntries(crc, rowConsumption.usage)]

\* max adding the totals up instead of taking the largest
crcMax_sum(crc) == crc["A"] + crc["B"]

\* chunkRowConsumption.max
crcMax(crc) ==
    CHOOSE m \in {0} \cup {crc[c] : c \in DOMAIN crc} :
        \A c \in DOMAIN crc : crc[c] <= m

(***************************************************************************)
(* types.Chunk.EstimateL1CommitGas: the commit gas of the blocks the chunk *)
(* holds when it is called, a fixed per-chunk overhead plus each block's   *)
(* own estimate.                                                           *)
(***************************************************************************)
ChunkGasOverhead == 1

RECURSIVE SumCommitGas(_)
SumCommitGas(bs) ==
    IF bs = <<>> THEN 0 ELSE Head(bs).commitGas + SumCommitGas(Tail(bs))

EstimateL1CommitGas(chunkBlocks) == ChunkGasOverhead + SumCommitGas(chunkBlocks)

\* uint64(p.gasCostIncreaseMultiplier * float64(totalL1CommitGas))
OverEstimateL1CommitGas(totalL1CommitGas) ==
    (gasCostIncreaseMultiplierNum * totalL1CommitGas) \div gasCostIncreaseMultiplierDen

(***************************************************************************)
(* GetL1BlockRangeHash.  The environment decides how the contract call     *)
(* goes: call fails | output is empty, a 32-byte word, or undecodable;     *)
(* CodeAt fails | returns no code | returns code.                          *)
(***************************************************************************)
\* L1ViewOracle.blockRangeHash(from, to): an opaque digest of the range
blockRangeHash(from, to) == <<from, to>>

OracleEnvs ==
    { [call |-> "ok",  output |-> "word",  code |-> "code"],
      [call |-> "err", output |-> "word",  code |-> "code"],
      [call |-> "ok",  output |-> "empty", code |-> "err"],
      [call |-> "ok",  output |-> "empty", code |-> "none"],
      [call |-> "ok",  output |-> "empty", code |-> "code"],
      [call |-> "ok",  output |-> "bad",   code |-> "code"] }

OracleOk == [call |-> "ok", output |-> "word", code |-> "code"]

\* the answers of CallContract (an answer of CodeAt is not known yet, and is
\* listed as code), and the answers of CodeAt
ContractReplies == {o \in OracleEnvs : o.code = "code"}

CodeAtReplies == {o.code : o \in OracleEnvs}

\* GetL1BlockRangeHash reporting no error when the oracle fails
GetL1BlockRangeHash_swallowErr(o, from, to) ==
    IF o = OracleOk
    THEN [err |-> "none", hash |-> blockRangeHash(from, to), codeAt |-> FALSE,
          contractCalls |-> 1, unpacked |-> TRUE]
    ELSE [err |-> "none", hash |-> NoHash, codeAt |-> o.call = "ok" /\ o.output = "empty",
          contractCalls |-> 1, unpacked |-> o.call = "ok"]

\* GetL1BlockRangeHash decoding a zero-length output without looking at the
\* code of the oracle address
GetL1BlockRangeHash_noCodeCheck(o, from, to) ==
    IF o.call = "err"
    THEN [err |-> "oracleCall", hash |-> NoHash, codeAt |-> FALSE,
          contractCalls |-> 1, unpacked |-> FALSE]
    ELSE IF o.output # "word"
         THEN [err |-> "oracleUnpack", hash |-> NoHash, codeAt |-> FALSE,
               contractCalls |-> 1, unpacked |-> TRUE]
    ELSE [err |-> "none", hash |-> blockRangeHash(from, to), codeAt |-> FALSE,
          contractCalls |-> 1, unpacked |-> TRUE]

\* GetL1BlockRangeHash calling the contract a second time after a failed
\* call and going on to the code lookup
GetL1BlockRangeHash_retry(o, from, to) ==
    IF o.call = "err"
    THEN [err |-> "oracleCall", hash |-> NoHash, codeAt |-> TRUE,
          contractCalls |-> 2, unpacked |-> FALSE]
    ELSE IF o.output = "empty" /\ o.code = "err"
         THEN [err |-> "oracleCodeAt", hash |-> NoHash, codeAt |-> TRUE,
               contractCalls |-> 1, unpacked |-> FALSE]
    ELSE IF o.output = "empty" /\ o.code = "none"
         THEN [err |-> "oracleContractUnknown", hash |-> NoHash, codeAt |-> TRUE,
               contractCalls |-> 1, unpacked |-> FALSE]
    ELSE IF o.output # "word"
         THEN [err |-> "oracleUnpack", hash |-> NoHash, codeAt |-> o.output = "empty",
               contractCalls |-> 1, unpacked |-> TRUE]
    ELSE [err |-> "none", hash |-> blockRangeHash(from, to), codeAt |-> FALSE,
          contractCalls |-> 1, unpacked |-> TRUE]

\* contractCalls: how often CallContract ran; codeAt: whether CodeAt ran;
\* unpacked: whether Unpack ran
GetL1BlockRangeHash(o, from, to) ==
    IF o.call = "err"
    THEN [err |-> "oracleCall", hash |-> NoHash, codeAt |-> FALSE,
          contractCalls |-> 1, unpacked |-> FALSE]
    ELSE IF o.output = "empty" /\ o.code = "err"
         THEN [err |-> "oracleCodeAt", hash |-> NoHash, codeAt |-> TRUE,
               contractCalls |-> 1, unpacked |-> FALSE]
    ELSE IF o.output = "empty" /\ o.code = "none"
         THEN [err |-> "oracleContractUnknown", hash |-> NoHash, codeAt |-> TRUE,
               contractCalls |-> 1, unpacked |-> FALSE]
    ELSE IF o.output # "word"
         THEN [err |-> "oracleUnpack", hash |-> NoHash, codeAt |-> o.output = "empty",
               contractCalls |-> 1, unpacked |-> TRUE]
    ELSE [err |-> "none", hash |-> blockRangeHash(from, to), codeAt |-> FALSE,
          contractCalls |-> 1, unpacked |-> TRUE]

(***************************************************************************)
(* The store (orm.Chunk, orm.L2Block) as the proposer uses it.             *)
(* A chunk row stands for its hash by its index; index 0 is "no chunk".    *)
(***************************************************************************)
NilOrmChunk ==
    [index |-> 0, parent |-> 0, StartBlockNumber |-> 0, EndBlockNumber |-> 0,
     LastAppliedL1Block |-> 0, L1BlockRangeHash |-> NoHash]

\* chunkOrm.GetLatestChunk: the newest chunk row, or not-found
GetLatestChunk ==
    IF dbChunks = <<>> THEN NilOrmChunk ELSE dbChunks[Len(dbChunks)]

\* chunkOrm.GetUnchunkedBlockHeight: the height of the first block that has
\* no chunk yet (the next height when every block has one)
GetUnchunkedBlockHeight ==
    LET un == {i \in 1..Len(l2Blocks) : l2Blocks[i].chunk_hash = 0}
    IN  IF un = {} THEN Len(l2Blocks)
        ELSE l2Blocks[CHOOSE i \in un : \A j \in un : i <= j].number

\* l2BlockOrm.GetL2WrappedBlocksGEHeight: at most limit blocks with
\* number >= height, in ascending order of number
GetL2WrappedBlocksGEHeight(height, limit) ==
    LET first == height + 1
        last  == IF Len(l2Blocks) < height + limit THEN Len(l2Blocks) ELSE height + limit
    IN  [i \in 1..(IF last < first THEN 0 ELSE last - first + 1) |->
            WrappedBlock(l2Blocks[first + i - 1])]

\* chunkOrm.InsertChunk: the new row, built from the chunk and its parent.
\* It is handed the latest row as parentChunk, so the new row is the next
\* one; what the store does with a second row behind one parent is not
\* established and not modelled
InsertChunk(parentChunk, chunk) ==
    [index |-> Len(dbChunks) + 1,
     parent |-> parentChunk.index,
     StartBlockNumber |-> chunk.Blocks[1].number,
     EndBlockNumber |-> chunk.Blocks[Len(chunk.Blocks)].number,
     LastAppliedL1Block |-> chunk.LastAppliedL1Block,
     L1BlockRangeHash |-> chunk.L1BlockRangeHash]

\* l2BlockOrm.UpdateChunkHashInRange: stamp the blocks start..end
UpdateChunkHashInRange(rows, startBlockNumber, endBlockNumber, chunkHash) ==
    [i \in 1..Len(rows) |->
        IF rows[i].number >= startBlockNumber /\ rows[i].number <= endBlockNumber
        THEN [rows[i] EXCEPT !.chunk_hash = chunkHash]
        ELSE rows[i]]

(***************************************************************************)
(* proposeChunk                                                            *)
(***************************************************************************)
NoMetrics ==
    [set |-> FALSE, chunkTxNum |-> 0, chunkEstimateL1CommitGas |-> 0,
     totalL1CommitCalldataSize |-> 0, maxTxConsumption |-> 0,
     totalTxGasUsed |-> 0, chunkBlocksNum |-> 0]

\* reply: how the contract call went
NoOracleCall ==
    [called |-> FALSE, calls |-> 0, from |-> 0, to |-> 0, codeAt |-> FALSE, reply |-> OracleOk,
     contractCalls |-> 0, unpacked |-> FALSE, hash |-> NoHash]

\* what proposeChunk hands back, with the gauges and counters it touched;
\* gasCompared: the totalL1CommitGas that was scaled and compared with the
\* ceiling for each candidate block the limit condition was evaluated for
NilResult ==
    [kind |-> "nil", err |-> "none", chunk |-> NilChunk, metrics |-> NoMetrics,
     oracle |-> NoOracleCall, timeoutReachedInc |-> FALSE, notEnoughInc |-> FALSE,
     height |-> 0, fetched |-> 0, gasCompared |-> <<>>]

\* the limit condition of the packing loop
LimitBreached(totalTxNum, totalL1CommitCalldataSize, totalOverEstimateL1CommitGas, crcMaxV) ==
    \/ totalTxNum > maxTxNumPerChunk
    \/ totalL1CommitCalldataSize > maxL1CommitCalldataSizePerChunk
    \/ totalOverEstimateL1CommitGas > maxL1CommitGasPerChunk
    \/ crcMaxV > maxRowConsumptionPerChunk

\* FirstBlockError without its transaction-number branch
FirstBlockError_noTxCheck(totalTxNum, totalL1CommitCalldataSize, totalOverEstimateL1CommitGas, crcMaxV) ==
    IF totalOverEstimateL1CommitGas > maxL1CommitGasPerChunk THEN "firstBlockL1CommitGas"
    ELSE IF totalL1CommitCalldataSize > maxL1CommitCalldataSizePerChunk THEN "firstBlockCalldataSize"
    ELSE IF crcMaxV > maxRowConsumptionPerChunk THEN "firstBlockRowConsumption"
    ELSE "none"

\* the error returned when the limit condition holds at i == 0
FirstBlockError(totalTxNum, totalL1CommitCalldataSize, totalOverEstimateL1CommitGas, crcMaxV) ==
    IF totalTxNum > maxTxNumPerChunk THEN "firstBlockTxNum"
    ELSE IF totalOverEstimateL1CommitGas > maxL1CommitGasPerChunk THEN "firstBlockL1CommitGas"
    ELSE IF totalL1CommitCalldataSize > maxL1CommitCalldataSizePerChunk THEN "firstBlockCalldataSize"
    ELSE IF crcMaxV > maxRowConsumptionPerChunk THEN "firstBlockRowConsumption"
    ELSE "none"

\* FirstBlockTimeout firing already at the deadline
FirstBlockTimeout_atDeadline(firstBlockTime, currentTimeSec) ==
    firstBlockTime + chunkTimeoutSec <= currentTimeSec

\* the first block timed out
FirstBlockTimeout(firstBlockTime, currentTimeSec) ==
    firstBlockTime + chunkTimeoutSec < currentTimeSec

\* ChunkReady taking any block count up to the cap as the cap
ChunkReady_upToCap(firstBlockTime, numBlocks, currentTimeSec) ==
    \/ firstBlockTime + chunkTimeoutSec < currentTimeSec
    \/ numBlocks <= maxBlockNumPerChunk

\* ChunkReady without the block cap
ChunkReady_timeoutOnly(firstBlockTime, numBlocks, currentTimeSec) ==
    firstBlockTime + chunkTimeoutSec < currentTimeSec

\* ChunkReady without the timeout
ChunkReady_capOnly(firstBlockTime, numBlocks, currentTimeSec) ==
    numBlocks = maxBlockNumPerChunk

\* the chunk is cut after the loop: timeout, or the block cap is reached
ChunkReady(firstBlockTime, numBlocks, currentTimeSec) ==
    \/ FirstBlockTimeout(firstBlockTime, currentTimeSec)
    \/ numBlocks = maxBlockNumPerChunk

InitTotals ==
    [totalTxGasUsed |-> 0, totalTxNum |-> 0, totalL1CommitCalldataSize |-> 0,
     totalL1CommitGas |-> 0, crc |-> EmptyCrc, gasCompared |-> <<>>]

\* The packing loop from candidate i (0-based) on.  chunk is the chunk under
\* construction, t the running totals; base is the result so far.
RECURSIVE packLoop(_, _, _, _, _)
packLoop(blocks, i, chunk, t, base) ==
    IF i >= Len(blocks)
    THEN [base EXCEPT !.kind = "exhausted", !.chunk = chunk,
              !.gasCompared = t.gasCompared,
              !.metrics = [set |-> FALSE,
                           chunkTxNum |-> t.totalTxNum,
                           chunkEstimateL1CommitGas |-> t.totalL1CommitGas,
                           totalL1CommitCalldataSize |-> t.totalL1CommitCalldataSize,
                           maxTxConsumption |-> crcMax(t.crc),
                           totalTxGasUsed |-> t.totalTxGasUsed,
                           chunkBlocksNum |-> Len(chunk.Blocks)]]
    ELSE
    LET block == blocks[i + 1]
        lastCrcMax == crcMax(t.crc)
        totalTxGasUsed == t.totalTxGasUsed + block.gasUsed
        totalTxNum == t.totalTxNum + block.txNum
        totalL1CommitCalldataSize == t.totalL1CommitCalldataSize + block.calldataSize
        totalL1CommitGas == EstimateL1CommitGas(chunk.Blocks)
        totalOverEstimateL1CommitGas == OverEstimateL1CommitGas(totalL1CommitGas)
        added == crcAdd(t.crc, block.rowConsumption)
        crcMaxV == crcMax(added.crc)
        gasCompared == Append(t.gasCompared, totalL1CommitGas)
        firstErr == IF i = 0
                    THEN FirstBlockError(totalTxNum, totalL1CommitCalldataSize,
                                         totalOverEstimateL1CommitGas, crcMaxV)
                    ELSE "none"
    IN  IF added.err
        THEN [base EXCEPT !.kind = "err", !.err = "rowConsumptionNil"]
        ELSE IF LimitBreached(totalTxNum, totalL1CommitCalldataSize,
                              totalOverEstimateL1CommitGas, crcMaxV)
        THEN IF firstErr # "none"
             THEN [base EXCEPT !.kind = "err", !.err = firstErr,
                               !.gasCompared = gasCompared]
             ELSE [base EXCEPT !.kind = "chunk", !.chunk = chunk,
                       !.gasCompared = gasCompared,
                       !.metrics = [set |-> TRUE,
                                    chunkTxNum |-> t.totalTxNum,
                                    chunkEstimateL1CommitGas |-> t.totalL1CommitGas,
                                    totalL1CommitCalldataSize |-> t.totalL1CommitCalldataSize,
                                    maxTxConsumption |-> lastCrcMax,
                                    totalTxGasUsed |-> t.totalTxGasUsed,
                                    chunkBlocksNum |-> Len(chunk.Blocks)]]
        ELSE packLoop(blocks, i + 1,
                      [chunk EXCEPT !.Blocks = Append(@, block)],
                      [totalTxGasUsed |-> totalTxGasUsed, totalTxNum |-> totalTxNum,
                       totalL1CommitCalldataSize |-> totalL1CommitCalldataSize,
                       totalL1CommitGas |-> totalL1CommitGas, crc |-> added.crc,
                       gasCompared |-> gasCompared],
                      base)

\* L1BlockRangeHashFrom without the step past the parent's last applied block
L1BlockRangeHashFrom_noIncrement(parentChunk) ==
    IF parentChunk.index # 0 THEN parentChunk.LastAppliedL1Block ELSE 0

\* the start of the L1 block range: one past the parent's last applied L1
\* block, or 0 when there is no parent or its value is 0
L1BlockRangeHashFrom(parentChunk) ==
    IF parentChunk.index # 0 /\ parentChunk.LastAppliedL1Block # 0
    THEN parentChunk.LastAppliedL1Block + 1
    ELSE 0

\* lastAppliedL1BlockOf reading the first fetched block
lastAppliedL1BlockOf_firstBlock(blocks) == blocks[1].LastAppliedL1Block

\* lastAppliedL1Block, read before the loop from the last fetched block
lastAppliedL1BlockOf(blocks) == blocks[Len(blocks)].LastAppliedL1Block

\* afterLoop handing the unfinished chunk back when it is not ready
afterLoop_keepsChunk(r, currentTimeSec) ==
    IF ChunkReady(r.chunk.Blocks[1].time, Len(r.chunk.Blocks), currentTimeSec)
    THEN [r EXCEPT !.kind = "chunk", !.metrics.set = TRUE, !.timeoutReachedInc = TRUE]
    ELSE [r EXCEPT !.kind = "nil", !.metrics = NoMetrics, !.notEnoughInc = TRUE]

\* the readiness check after the loop has taken every fetched block
afterLoop(r, currentTimeSec) ==
    IF ChunkReady(r.chunk.Blocks[1].time, Len(r.chunk.Blocks), currentTimeSec)
    THEN [r EXCEPT !.kind = "chunk", !.metrics.set = TRUE, !.timeoutReachedInc = TRUE]
    ELSE [r EXCEPT !.kind = "nil", !.chunk = NilChunk, !.metrics = NoMetrics,
                   !.notEnoughInc = TRUE]

\* the fetch that starts at height 0 instead of the first unassigned height
fetchBlocks_fromGenesis(unchunkedBlockHeight) ==
    GetL2WrappedBlocksGEHeight(0, maxBlockNumPerChunk)

\* line 218: at most maxBlockNumPerChunk blocks from the first unassigned
\* height
fetchBlocks(unchunkedBlockHeight) ==
    GetL2WrappedBlocksGEHeight(unchunkedBlockHeight, maxBlockNumPerChunk)

\* lines 227-247: the range of the oracle call and the call; r0 is the
\* outcome so far, oracleEnv how the oracle goes
proposeChunkRangeHash(parentChunk, blocks, oracleEnv, r0) ==
    LET lastAppliedL1Block == lastAppliedL1BlockOf(blocks)
        l1BlockRangeHashFrom == L1BlockRangeHashFrom(parentChunk)
        h == GetL1BlockRangeHash(oracleEnv, l1BlockRangeHashFrom, lastAppliedL1Block)
        r1 == [r0 EXCEPT !.oracle = [called |-> TRUE, calls |-> r0.oracle.calls + 1,
                                      from |-> l1BlockRangeHashFrom,
                                      to |-> lastAppliedL1Block, codeAt |-> h.codeAt,
                                      reply |-> oracleEnv,
                                      contractCalls |-> h.contractCalls,
                                      unpacked |-> h.unpacked, hash |-> h.hash]]
    IN  IF h.err # "none" THEN [r1 EXCEPT !.kind = "err", !.err = h.err] ELSE r1

\* lines 249-366: the chunk header, the packing loop and the readiness check
\* at the time read after the loop; r1 is the outcome of the oracle call
proposeChunkPack(blocks, r1, currentTimeSec) ==
    LET chunk == [isNil |-> FALSE, Blocks |-> <<>>,
                  LastAppliedL1Block |-> r1.oracle.to,
                  L1BlockRangeHash |-> r1.oracle.hash]
        r == packLoop(blocks, 0, chunk, InitTotals, r1)
    IN  IF r.kind = "exhausted" THEN afterLoop(r, currentTimeSec) ELSE r

\* proposeChunk on one state of the store and one reading of the clock.
\* env.read: how the two store reads go; env.oracle: how the oracle goes
proposeChunk(parentChunk, env, currentTimeSec) ==
    IF env.read = "heightErr" THEN [NilResult EXCEPT !.kind = "err", !.err = "dbRead"]
    ELSE
    LET unchunkedBlockHeight == GetUnchunkedBlockHeight
        blocks == fetchBlocks(unchunkedBlockHeight)
        r0 == [NilResult EXCEPT !.height = unchunkedBlockHeight, !.fetched = Len(blocks)]
    IN  IF env.read = "fetchErr"
        THEN [NilResult EXCEPT !.kind = "err", !.err = "dbRead"]
        ELSE IF Len(blocks) = 0 THEN r0
        ELSE LET r1 == proposeChunkRangeHash(parentChunk, blocks, env.oracle, r0)
             IN  IF r1.kind = "err" THEN r1
                 ELSE proposeChunkPack(blocks, r1, currentTimeSec)

(***************************************************************************)
(* updateChunkInfoInDB: one transaction that inserts the chunk row and     *)
(* stamps its blocks.  write says how the two statements go; a failed      *)
(* statement rolls the transaction back.                                   *)
(***************************************************************************)
\* updateChunkInfoInDB without the transaction: a failed stamping leaves the
\* inserted chunk row behind
updateChunkInfoInDB_noRollback(parentChunk, chunk, write) ==
    IF chunk.isNil
    THEN [err |-> "none", updateInfoInc |-> FALSE, inserted |-> 0,
          chunks |-> dbChunks, blocks |-> l2Blocks]
    ELSE IF write = "insertErr" \/ Len(chunk.Blocks) = 0
    THEN [err |-> "insert", updateInfoInc |-> TRUE, inserted |-> 0,
          chunks |-> dbChunks, blocks |-> l2Blocks]
    ELSE LET dbChunk == InsertChunk(parentChunk, chunk)
         IN  IF write = "updateErr"
             THEN [err |-> "update", updateInfoInc |-> TRUE, inserted |-> 0,
                   chunks |-> Append(dbChunks, dbChunk), blocks |-> l2Blocks]
             ELSE [err |-> "none", updateInfoInc |-> TRUE, inserted |-> dbChunk.index,
                   chunks |-> Append(dbChunks, dbChunk),
                   blocks |-> UpdateChunkHashInRange(l2Blocks, dbChunk.StartBlockNumber,
                                                     dbChunk.EndBlockNumber, dbChunk.index)]

\* updateChunkInfoInDB whose stamping of the blocks is not undone when the
\* statement fails after it began
updateChunkInfoInDB_stampsKept(parentChunk, chunk, write) ==
    IF chunk.isNil
    THEN [err |-> "none", updateInfoInc |-> FALSE, inserted |-> 0,
          chunks |-> dbChunks, blocks |-> l2Blocks]
    ELSE IF write = "insertErr" \/ Len(chunk.Blocks) = 0
    THEN [err |-> "insert", updateInfoInc |-> TRUE, inserted |-> 0,
          chunks |-> dbChunks, blocks |-> l2Blocks]
    ELSE LET dbChunk == InsertChunk(parentChunk, chunk)
         IN  IF write = "updateErr"
             THEN [err |-> "update", updateInfoInc |-> TRUE, inserted |-> 0,
                   chunks |-> dbChunks,
                   blocks |-> UpdateChunkHashInRange(l2Blocks, dbChunk.StartBlockNumber,
                                                     dbChunk.StartBlockNumber,
                                                     dbChunk.index)]
             ELSE [err |-> "none", updateInfoInc |-> TRUE, inserted |-> dbChunk.index,
                   chunks |-> Append(dbChunks, dbChunk),
                   blocks |-> UpdateChunkHashInRange(l2Blocks, dbChunk.StartBlockNumber,
                                                     dbChunk.EndBlockNumber, dbChunk.index)]

\* updateChunkInfoInDB without its nil check: a nil chunk goes to InsertChunk
updateChunkInfoInDB_noNilCheck(parentChunk, chunk, write) ==
    IF write = "insertErr" \/ Len(chunk.Blocks) = 0
    THEN [err |-> "insert", updateInfoInc |-> TRUE, inserted |-> 0,
          chunks |-> dbChunks, blocks |-> l2Blocks]
    ELSE IF write = "updateErr"
    THEN [err |-> "update", updateInfoInc |-> TRUE, inserted |-> 0,
          chunks |-> dbChunks, blocks |-> l2Blocks]
    ELSE LET dbChunk == InsertChunk(parentChunk, chunk)
         IN  [err |-> "none", updateInfoInc |-> TRUE, inserted |-> dbChunk.index,
              chunks |-> Append(dbChunks, dbChunk),
              blocks |-> UpdateChunkHashInRange(l2Blocks, dbChunk.StartBlockNumber,
                                                dbChunk.EndBlockNumber, dbChunk.index)]

\* updateChunkInfoInDB stamping one block past the end of the chunk
updateChunkInfoInDB_offByOne(parentChunk, chunk, write) ==
    IF chunk.isNil
    THEN [err |-> "none", updateInfoInc |-> FALSE, inserted |-> 0,
          chunks |-> dbChunks, blocks |-> l2Blocks]
    ELSE IF write = "insertErr" \/ Len(chunk.Blocks) = 0
    THEN [err |-> "insert", updateInfoInc |-> TRUE, inserted |-> 0,
          chunks |-> dbChunks, blocks |-> l2Blocks]
    ELSE IF write = "updateErr"
    THEN [err |-> "update", updateInfoInc |-> TRUE, inserted |-> 0,
          chunks |-> dbChunks, blocks |-> l2Blocks]
    ELSE LET dbChunk == InsertChunk(parentChunk, chunk)
         IN  [err |-> "none", updateInfoInc |-> TRUE, inserted |-> dbChunk.index,
              chunks |-> Append(dbChunks, dbChunk),
              blocks |-> UpdateChunkHashInRange(l2Blocks, dbChunk.StartBlockNumber,
                                                dbChunk.EndBlockNumber + 1, dbChunk.index)]

\* updateChunkInfoInDB that hands InsertChunk no parent
updateChunkInfoInDB_nilParent(parentChunk, chunk, write) ==
    IF chunk.isNil
    THEN [err |-> "none", updateInfoInc |-> FALSE, inserted |-> 0,
          chunks |-> dbChunks, blocks |-> l2Blocks]
    ELSE IF write = "insertErr" \/ Len(chunk.Blocks) = 0
    THEN [err |-> "insert", updateInfoInc |-> TRUE, inserted |-> 0,
          chunks |-> dbChunks, blocks |-> l2Blocks]
    ELSE IF write = "updateErr"
    THEN [err |-> "update", updateInfoInc |-> TRUE, inserted |-> 0,
          chunks |-> dbChunks, blocks |-> l2Blocks]
    ELSE LET dbChunk == InsertChunk(NilOrmChunk, chunk)
         IN  [err |-> "none", updateInfoInc |-> TRUE, inserted |-> dbChunk.index,
              chunks |-> Append(dbChunks, dbChunk),
              blocks |-> UpdateChunkHashInRange(l2Blocks, dbChunk.StartBlockNumber,
                                                dbChunk.EndBlockNumber, dbChunk.index)]

updateChunkInfoInDB(parentChunk, chunk, write) ==
    IF chunk.isNil
    THEN [err |-> "none", updateInfoInc |-> FALSE, inserted |-> 0,
          chunks |-> dbChunks, blocks |-> l2Blocks]
    ELSE IF write = "insertErr" \/ Len(chunk.Blocks) = 0
    THEN [err |-> "insert", updateInfoInc |-> TRUE, inserted |-> 0,
          chunks |-> dbChunks, blocks |-> l2Blocks]
    ELSE IF write = "updateErr"
    THEN [err |-> "update", updateInfoInc |-> TRUE, inserted |-> 0,
          chunks |-> dbChunks, blocks |-> l2Blocks]
    ELSE LET dbChunk == InsertChunk(parentChunk, chunk)
         IN  [err |-> "none", updateInfoInc |-> TRUE, inserted |-> dbChunk.index,
              chunks |-> Append(dbChunks, dbChunk),
              blocks |-> UpdateChunkHashInRange(l2Blocks, dbChunk.StartBlockNumber,
                                                dbChunk.EndBlockNumber, dbChunk.index)]

(***************************************************************************)
(* One TryProposeChunk in progress: where the call stands (pc), what it    *)
(* has read so far (parent, blocks, res.height, res.fetched, res.oracle,   *)
(* now), what proposeChunk returned (res), the counters the cycle          *)
(* incremented and the chunk row it inserted.  ran holds once the call     *)
(* has run to its return.                                                  *)
(***************************************************************************)
Idle ==
    [pc |-> "idle", ran |-> FALSE, now |-> 0, parent |-> 0, latestErr |-> FALSE,
     blocks |-> <<>>, res |-> NilResult,
     circleInc |-> FALSE, failureInc |-> FALSE, updateInfoInc |-> FALSE,
     updateInfoFailureInc |-> FALSE, inserted |-> 0]

(***************************************************************************)
(* ScrollChain, the rollup contract, as ScrollChainTest drives it.  The    *)
(* contract is known here by its calls, their revert messages and its      *)
(* getters.  A batch header is its index and its data hash; a batch hash   *)
(* is a number that stands for one header, 0 for the zero hash.  A call    *)
(* that reverts leaves the storage as it was (EVM).                        *)
(***************************************************************************)
\* address(this) of the test, a contract: it deploys and owns the rollup
Owner == "owner"
\* an externally owned account
Operator == "operator"
Senders == {Owner, Operator}

DataHashes == {1, 2}
\* the state roots a finalization names as previous and supplies as new
StateRoots == {1, 2}
PostStateRoots == {2}
WithdrawRoots == {3}
BatchHeader(i, d) == [batchIndex |-> i, dataHash |-> d]
NoHeader == BatchHeader(0, 0)
\* the lists of chunks of a commit: none, or one chunk
ChunkLists == {<<>>, <<1>>}

\* the hash of a batch header
computeBatchHash(h) == 2 * h.batchIndex + h.dataHash

\* the data hash of a list of chunks
computeDataHash(chunks) == Len(chunks)

\* the storage after initialize(messageQueue, verifier, 100, l1ViewOracle)
NewScrollChain ==
    [committedBatches |-> [i \in 0..MaxBatches |-> 0],
     finalizedStateRoots |-> [i \in 0..MaxBatches |-> 0],
     withdrawRoots |-> [i \in 0..MaxBatches |-> 0],
     lastFinalizedBatchIndex |-> 0,
     isSequencer |-> [a \in Senders |-> FALSE],
     isProver |-> [a \in Senders |-> FALSE],
     paused |-> FALSE,
     verifier |-> "verifier",
     maxNumTxInChunk |-> 100]

\* the last call made to the contract: its arguments, how it ended and the
\* number of RevertBatch events it emitted
NoCall ==
    [op |-> "none", sender |-> Owner, header |-> NoHeader, chunks |-> <<>>,
     count |-> 0, prevStateRoot |-> 0, postStateRoot |-> 0, withdrawRoot |-> 0,
     account |-> Owner, events |-> 0, revert |-> "none"]

NewRollup == [state |-> NewScrollChain, call |-> NoCall]

Done(st) == [revert |-> "none", state |-> st]
Revert(st, msg) == [revert |-> msg, state |-> st]

\* committedBatches(i): a mapping, zero where nothing was written
committedBatches(st, i) ==
    IF i \in DOMAIN st.committedBatches THEN st.committedBatches[i] ELSE 0

isBatchFinalized(st, i) == i <= st.lastFinalizedBatchIndex

importGenesisBatch(st, header, stateRoot) ==
    IF stateRoot = 0 THEN Revert(st, "zero state root")
    ELSE IF header.batchIndex # 0 THEN Revert(st, "not all fields are zero")
    ELSE IF header.dataHash = 0 THEN Revert(st, "zero data hash")
    ELSE IF st.committedBatches[0] # 0 THEN Revert(st, "Genesis batch imported")
    ELSE Done([st EXCEPT !.committedBatches[0] = computeBatchHash(header),
                         !.finalizedStateRoots[0] = stateRoot])

\* commitBatch without the check that the next index is still free
commitBatch_overwrites(st, sender, parentBatchHeader, chunks) ==
    IF ~st.isSequencer[sender] THEN Revert(st, "caller not sequencer")
    ELSE IF st.paused THEN Revert(st, "Pausable: paused")
    ELSE IF Len(chunks) = 0 THEN Revert(st, "batch is empty")
    ELSE IF st.committedBatches[parentBatchHeader.batchIndex]
                # computeBatchHash(parentBatchHeader)
         THEN Revert(st, "incorrect parent batch hash")
    ELSE LET batchIndex == parentBatchHeader.batchIndex + 1
         IN  Done([st EXCEPT !.committedBatches[batchIndex] =
                        computeBatchHash(BatchHeader(batchIndex, computeDataHash(chunks)))])

\* commitBatch open to any sender
commitBatch_anySender(st, sender, parentBatchHeader, chunks) ==
    IF st.paused THEN Revert(st, "Pausable: paused")
    ELSE IF Len(chunks) = 0 THEN Revert(st, "batch is empty")
    ELSE IF st.committedBatches[parentBatchHeader.batchIndex]
                # computeBatchHash(parentBatchHeader)
         THEN Revert(st, "incorrect parent batch hash")
    ELSE IF committedBatches(st, parentBatchHeader.batchIndex + 1) # 0
         THEN Revert(st, "batch already committed")
    ELSE LET batchIndex == parentBatchHeader.batchIndex + 1
         IN  Done([st EXCEPT !.committedBatches[batchIndex] =
                        computeBatchHash(BatchHeader(batchIndex, computeDataHash(chunks)))])

\* commitBatch(0, parentBatchHeader, chunks, ...): a commit of version 0 whose
\* chunks, when there are any, are well formed
commitBatch(st, sender, parentBatchHeader, chunks) ==
    IF ~st.isSequencer[sender] THEN Revert(st, "caller not sequencer")
    ELSE IF st.paused THEN Revert(st, "Pausable: paused")
    ELSE IF Len(chunks) = 0 THEN Revert(st, "batch is empty")
    ELSE IF st.committedBatches[parentBatchHeader.batchIndex]
                # computeBatchHash(parentBatchHeader)
         THEN Revert(st, "incorrect parent batch hash")
    ELSE IF committedBatches(st, parentBatchHeader.batchIndex + 1) # 0
         THEN Revert(st, "batch already committed")
    ELSE LET batchIndex == parentBatchHeader.batchIndex + 1
         IN  Done([st EXCEPT !.committedBatches[batchIndex] =
                        computeBatchHash(BatchHeader(batchIndex, computeDataHash(chunks)))])

\* finalizeBatchWithProof without the check that the batch is not verified yet
finalizeBatchWithProof_again(st, sender, header, prevStateRoot, postStateRoot, withdrawRoot) ==
    IF ~st.isProver[sender] THEN Revert(st, "caller not prover")
    ELSE IF st.paused THEN Revert(st, "Pausable: paused")
    ELSE IF st.committedBatches[header.batchIndex] # computeBatchHash(header)
         THEN Revert(st, "incorrect batch hash")
    ELSE IF st.finalizedStateRoots[header.batchIndex - 1] # prevStateRoot
         THEN Revert(st, "incorrect previous state root")
    ELSE Done([st EXCEPT !.finalizedStateRoots[header.batchIndex] = postStateRoot,
                         !.withdrawRoots[header.batchIndex] = withdrawRoot,
                         !.lastFinalizedBatchIndex = header.batchIndex])

\* finalizeBatchWithProof with a header of the right length and a proof the
\* verifier accepts
finalizeBatchWithProof(st, sender, header, prevStateRoot, postStateRoot, withdrawRoot) ==
    IF ~st.isProver[sender] THEN Revert(st, "caller not prover")
    ELSE IF st.paused THEN Revert(st, "Pausable: paused")
    ELSE IF st.committedBatches[header.batchIndex] # computeBatchHash(header)
         THEN Revert(st, "incorrect batch hash")
    ELSE IF st.finalizedStateRoots[header.batchIndex - 1] # prevStateRoot
         THEN Revert(st, "incorrect previous state root")
    ELSE IF st.finalizedStateRoots[header.batchIndex] # 0
         THEN Revert(st, "batch already verified")
    ELSE Done([st EXCEPT !.finalizedStateRoots[header.batchIndex] = postStateRoot,
                         !.withdrawRoots[header.batchIndex] = withdrawRoot,
                         !.lastFinalizedBatchIndex = header.batchIndex])

\* the loop of revertBatch: it zeroes the committed hashes of count batches
\* from batchIndex on, one after the other
RECURSIVE revertLoop(_, _, _)
revertLoop(st, batchIndex, count) ==
    IF count = 0 THEN st
    ELSE revertLoop([st EXCEPT !.committedBatches[batchIndex] = 0],
                    batchIndex + 1, count - 1)

\* revertBatch without the check that no committed batch is left behind
revertBatch_leavesGap(st, sender, header, count) ==
    IF sender # Owner THEN Revert(st, "Ownable: caller is not the owner")
    ELSE IF count = 0 THEN Revert(st, "count must be nonzero")
    ELSE IF st.committedBatches[header.batchIndex] # computeBatchHash(header)
         THEN Revert(st, "incorrect batch hash")
    ELSE IF header.batchIndex <= st.lastFinalizedBatchIndex
         THEN Revert(st, "can only revert unfinalized batch")
    ELSE Done(revertLoop(st, header.batchIndex, count))

revertBatch(st, sender, header, count) ==
    IF sender # Owner THEN Revert(st, "Ownable: caller is not the owner")
    ELSE IF count = 0 THEN Revert(st, "count must be nonzero")
    ELSE IF st.committedBatches[header.batchIndex] # computeBatchHash(header)
         THEN Revert(st, "incorrect batch hash")
    ELSE IF committedBatches(st, header.batchIndex + count) # 0
         THEN Revert(st, "reverting must start from the ending")
    ELSE IF header.batchIndex <= st.lastFinalizedBatchIndex
         THEN Revert(st, "can only revert unfinalized batch")
    ELSE Done(revertLoop(st, header.batchIndex, count))

addSequencer(st, sender, account) ==
    IF sender # Owner THEN Revert(st, "Ownable: caller is not the owner")
    ELSE IF account = Owner THEN Revert(st, "not EOA")
    ELSE Done([st EXCEPT !.isSequencer[account] = TRUE])

removeSequencer(st, sender, account) ==
    IF sender # Owner THEN Revert(st, "Ownable: caller is not the owner")
    ELSE Done([st EXCEPT !.isSequencer[account] = FALSE])

addProver(st, sender, account) ==
    IF sender # Owner THEN Revert(st, "Ownable: caller is not the owner")
    ELSE IF account = Owner THEN Revert(st, "not EOA")
    ELSE Done([st EXCEPT !.isProver[account] = TRUE])

removeProver(st, sender, account) ==
    IF sender # Owner THEN Revert(st, "Ownable: caller is not the owner")
    ELSE Done([st EXCEPT !.isProver[account] = FALSE])

setPause(st, sender, status) ==
    IF sender # Owner THEN Revert(st, "Ownable: caller is not the owner")
    ELSE Done([st EXCEPT !.paused = status])

updateVerifier(st, sender, newVerifier) ==
    IF sender # Owner THEN Revert(st, "Ownable: caller is not the owner")
    ELSE Done([st EXCEPT !.verifier = newVerifier])

updateMaxNumTxInChunk(st, sender, maxNumTxInChunk) ==
    IF sender # Owner THEN Revert(st, "Ownable: caller is not the owner")
    ELSE Done([st EXCEPT !.maxNumTxInChunk = maxNumTxInChunk])

(***************************************************************************)
(* BaseProverTask.checkParameter of the coordinator.  A gin.Context holds, *)
(* under each of the three keys, a string or nothing; the prover_task      *)
(* table is known here by the public keys that hold a task, and by whether *)
(* the lookup in it succeeds.                                              *)
(***************************************************************************)
\* ctx.Get found no value under the key
Absent == "absent"

PublicKeys == {"pk1", "pk2"}

ProverNames == {"prover"}

ProverVersions == {"v-old", "v-current"}

VKs == {"vk1", "vk2"}

\* b.vk, the verification key of the coordinator
vk == "vk1"

\* version.CheckScrollProverVersion: the prover's version is one the
\* coordinator works with
CheckScrollProverVersion(proverVersion) == proverVersion = "v-current"

\* proverTaskOrm.IsProverAssigned: the lookup, failed or with its answer
IsProverAssigned(assigned, lookup, publicKey) ==
    [err |-> lookup = "err", isAssigned |-> publicKey \in assigned]

\* a nil *proverTaskContext
NoProverTaskContext == [isNil |-> TRUE, PublicKey |-> Absent, ProverName |-> Absent,
                        ProverVersion |-> Absent]

\* return nil, err; lookups counts the IsProverAssigned calls made
CheckFailed(err, lookups) ==
    [err |-> err, ptc |-> NoProverTaskContext, lookups |-> lookups]

\* checkParameter without the test of isAssigned
checkParameter_noAssignedTest(ctx, getTaskParameter, assigned, lookup) ==
    IF ctx.PublicKey = Absent THEN CheckFailed("noPublicKey", 0)
    ELSE IF ctx.ProverName = Absent THEN CheckFailed("noProverName", 0)
    ELSE IF ctx.ProverVersion = Absent THEN CheckFailed("noProverVersion", 0)
    ELSE IF getTaskParameter.VK # vk
    THEN IF ~CheckScrollProverVersion(ctx.ProverVersion)
         THEN CheckFailed("incompatibleProverVersion", 0)
         ELSE CheckFailed("incompatibleVK", 0)
    ELSE LET r == IsProverAssigned(assigned, lookup, ctx.PublicKey)
         IN  IF r.err THEN CheckFailed("lookupFailed", 1)
             ELSE [err |-> "none", lookups |-> 1,
                   ptc |-> [isNil |-> FALSE, PublicKey |-> ctx.PublicKey,
                            ProverName |-> ctx.ProverName,
                            ProverVersion |-> ctx.ProverVersion]]

checkParameter(ctx, getTaskParameter, assigned, lookup) ==
    IF ctx.PublicKey = Absent THEN CheckFailed("noPublicKey", 0)
    ELSE IF ctx.ProverName = Absent THEN CheckFailed("noProverName", 0)
    ELSE IF ctx.ProverVersion = Absent THEN CheckFailed("noProverVersion", 0)
    ELSE IF getTaskParameter.VK # vk
    THEN IF ~CheckScrollProverVersion(ctx.ProverVersion)
         THEN CheckFailed("incompatibleProverVersion", 0)
         ELSE CheckFailed("incompatibleVK", 0)
    ELSE LET r == IsProverAssigned(assigned, lookup, ctx.PublicKey)
         IN  IF r.err THEN CheckFailed("lookupFailed", 1)
             ELSE IF r.isAssigned THEN CheckFailed("alreadyAssigned", 1)
             ELSE [err |-> "none", lookups |-> 1,
                   ptc |-> [isNil |-> FALSE, PublicKey |-> ctx.PublicKey,
                            ProverName |-> ctx.ProverName,
                            ProverVersion |-> ctx.ProverVersion]]

\* no checkParameter call yet
NoCheck ==
    [made |-> FALSE,
     ctx |-> [PublicKey |-> Absent, ProverName |-> Absent, ProverVersion |-> Absent],
     getTaskParameter |-> [VK |-> vk], lookup |-> "ok",
     out |-> CheckFailed("none", 0)]

\* a coordinator no prover holds a task of
NewBaseProverTask == [assigned |-> {}, call |-> NoCheck]

\* a call in which the store and the oracle succeed
AllOk == [latest |-> "ok", read |-> "ok", oracle |-> OracleOk, write |-> "ok"]

\* a chunkRowConsumption{} nothing has been added to
NoAdd == [crc |-> EmptyCrc, prev |-> EmptyCrc, arg |-> NilRC, err |-> FALSE, added |-> FALSE,
          max |-> 0, measured |-> FALSE]

\* an empty store and a proposer that has not run
NewStore ==
    /\ l2Blocks = <<>>
    /\ dbChunks = <<>>
    /\ clock = 0
    /\ cycle = Idle
    /\ rowAcc = NoAdd
    /\ rollup = NewRollup
    /\ proverTasks = NewBaseProverTask

Init ==
    /\ NewStore
    /\ maxBlockNumPerChunk = maxBlockNumPerChunkSmall

\* the upstream pipeline stores the next L2 block: one of the given contents,
\* its lastAppliedL1Block one of the given steps past the previous block's.
\* The pipeline runs beside the proposer, whatever the proposer is doing
ImportBlocks(limit, profiles, l1Steps) ==
    /\ Len(l2Blocks) < limit
    /\ \E p \in profiles, d \in l1Steps :
         LET prof == BlockProfiles[p]
             prevL1 == IF l2Blocks = <<>> THEN 0
                       ELSE l2Blocks[Len(l2Blocks)].LastAppliedL1Block
         IN  l2Blocks' = Append(l2Blocks,
                 [number |-> Len(l2Blocks), time |-> clock, txNum |-> prof.txNum,
                  calldataSize |-> prof.calldataSize, commitGas |-> prof.commitGas,
                  gasUsed |-> prof.gasUsed, rowConsumption |-> prof.rowConsumption,
                  LastAppliedL1Block |-> prevL1 + d, chunk_hash |-> 0])
    /\ UNCHANGED <<dbChunks, clock, cycle, maxBlockNumPerChunk, rowAcc, rollup, proverTasks>>

ImportBlock(profiles) == ImportBlocks(MaxBlocks, profiles, {0, 1})

NewBlock == ImportBlock(1..Len(BlockProfiles))

\* time passes, whatever the proposer is doing; the clock starts with the
\* first block
Tick ==
    /\ l2Blocks # <<>>
    /\ clock < MaxTime
    /\ clock' = clock + 1
    /\ UNCHANGED <<l2Blocks, dbChunks, cycle, maxBlockNumPerChunk, rowAcc, rollup, proverTasks>>

\* the chunk row the running cycle read as the latest (rows are never
\* rewritten)
ParentChunk == IF cycle.parent = 0 THEN NilOrmChunk ELSE dbChunks[cycle.parent]

\* the cycle runs to its return on a failure of proposeChunk (lines 178-182)
ProposeChunkFailed(r) ==
    [cycle EXCEPT !.pc = "done", !.ran = TRUE, !.res = r, !.failureInc = TRUE]

\* lines 170-176: the latest chunk row is read; on a failure the cycle
\* returns before it counts itself
GetLatestChunkStep(latest) ==
    /\ cycle.pc = "idle"
    /\ cycle' = IF latest = "err"
                THEN [Idle EXCEPT !.pc = "done", !.ran = TRUE, !.latestErr = TRUE]
                ELSE [Idle EXCEPT !.pc = "latest", !.parent = GetLatestChunk.index,
                                  !.circleInc = TRUE]
    /\ UNCHANGED <<l2Blocks, dbChunks, clock, maxBlockNumPerChunk, rowAcc, rollup, proverTasks>>

\* lines 212-215: the first unassigned height is read
GetUnchunkedBlockHeightStep(read) ==
    /\ cycle.pc = "latest"
    /\ cycle' = IF read = "err"
                THEN ProposeChunkFailed([NilResult EXCEPT !.kind = "err", !.err = "dbRead"])
                ELSE [cycle EXCEPT !.pc = "height", !.res.height = GetUnchunkedBlockHeight]
    /\ UNCHANGED <<l2Blocks, dbChunks, clock, maxBlockNumPerChunk, rowAcc, rollup, proverTasks>>

\* lines 218-225: the blocks are fetched; with none proposeChunk returns no
\* chunk
GetL2WrappedBlocksGEHeightStep(read) ==
    /\ cycle.pc = "height"
    /\ LET blocks == fetchBlocks(cycle.res.height)
       IN  cycle' = IF read = "err"
                    THEN ProposeChunkFailed([NilResult EXCEPT !.kind = "err", !.err = "dbRead"])
                    ELSE IF Len(blocks) = 0
                    THEN [cycle EXCEPT !.pc = "proposed"]
                    ELSE [cycle EXCEPT !.pc = "fetched", !.blocks = blocks,
                                       !.res.fetched = Len(blocks)]
    /\ UNCHANGED <<l2Blocks, dbChunks, clock, maxBlockNumPerChunk, rowAcc, rollup, proverTasks>>

\* the cycle goes on from the outcome r1 of GetL1BlockRangeHash (lines
\* 243-247)
AfterGetL1BlockRangeHash(r1) ==
    IF r1.kind = "err" THEN ProposeChunkFailed(r1)
    ELSE [cycle EXCEPT !.pc = "hashed", !.res = r1]

\* lines 227-243 and 369-382: the range is worked out and CallContract is
\* sent and answered.  When GetL1BlockRangeHash goes on to CodeAt (line 383)
\* the call waits a second time, holding the range and the answer of the
\* contract; otherwise it returns (lines 391-405)
CallContractStep(contractReply) ==
    /\ cycle.pc = "fetched"
    /\ LET r1 == proposeChunkRangeHash(ParentChunk, cycle.blocks, contractReply, cycle.res)
       IN  cycle' = IF r1.oracle.codeAt
                    THEN [cycle EXCEPT !.pc = "codeAt",
                                       !.res.oracle = [r1.oracle EXCEPT !.codeAt = FALSE,
                                                                        !.unpacked = FALSE,
                                                                        !.hash = NoHash]]
                    ELSE AfterGetL1BlockRangeHash(r1)
    /\ UNCHANGED <<l2Blocks, dbChunks, clock, maxBlockNumPerChunk, rowAcc, rollup, proverTasks>>

\* lines 383-405: CodeAt is answered and GetL1BlockRangeHash returns, with
\* the outcome of the whole call now that both answers are known
CodeAtStep(code) ==
    /\ cycle.pc = "codeAt"
    /\ LET oracleEnv == [cycle.res.oracle.reply EXCEPT !.code = code]
           r0 == [cycle.res EXCEPT !.oracle = NoOracleCall]
       IN  cycle' = AfterGetL1BlockRangeHash(
                        proposeChunkRangeHash(ParentChunk, cycle.blocks, oracleEnv, r0))
    /\ UNCHANGED <<l2Blocks, dbChunks, clock, maxBlockNumPerChunk, rowAcc, rollup, proverTasks>>

\* lines 249-366: the blocks fetched are packed and the clock is read
PackStep ==
    /\ cycle.pc = "hashed"
    /\ LET r == proposeChunkPack(cycle.blocks, cycle.res, clock)
       IN  cycle' = IF r.kind = "err"
                    THEN [ProposeChunkFailed(r) EXCEPT !.now = clock]
                    ELSE [cycle EXCEPT !.pc = "proposed", !.res = r, !.now = clock]
    /\ UNCHANGED <<l2Blocks, dbChunks, clock, maxBlockNumPerChunk, rowAcc, rollup, proverTasks>>

\* lines 184-187: the transaction on the store as it is now, and the return
UpdateChunkInfoInDBStep(write) ==
    /\ cycle.pc = "proposed"
    /\ LET u == updateChunkInfoInDB(ParentChunk, cycle.res.chunk, write)
       IN  /\ cycle' = [cycle EXCEPT !.pc = "done", !.ran = TRUE,
                                     !.updateInfoInc = u.updateInfoInc,
                                     !.updateInfoFailureInc = (u.err # "none"),
                                     !.inserted = u.inserted]
           /\ dbChunks' = u.chunks
           /\ l2Blocks' = u.blocks
    /\ UNCHANGED <<clock, maxBlockNumPerChunk, rowAcc, rollup, proverTasks>>

\* the steps of the call up to the transaction
ReadSteps ==
    \/ \E latest \in {"ok", "err"} : GetLatestChunkStep(latest)
    \/ \E read \in {"ok", "err"} : GetUnchunkedBlockHeightStep(read)
    \/ \E read \in {"ok", "err"} : GetL2WrappedBlocksGEHeightStep(read)
    \/ \E contractReply \in ContractReplies : CallContractStep(contractReply)
    \/ \E code \in CodeAtReplies : CodeAtStep(code)
    \/ PackStep

\* one step of TryProposeChunk; the store, the oracle and the clock are
\* shared with the pipeline, and the call holds no lock between its steps
TryProposeChunk ==
    \/ ReadSteps
    \/ \E write \in {"ok", "insertErr", "updateErr"} : UpdateChunkInfoInDBStep(write)

\* one step of a TryProposeChunk in which the store and the oracle succeed
TryProposeChunkOk ==
    \/ GetLatestChunkStep("ok")
    \/ GetUnchunkedBlockHeightStep("ok")
    \/ GetL2WrappedBlocksGEHeightStep("ok")
    \/ CallContractStep(OracleOk)
    \/ PackStep
    \/ UpdateChunkInfoInDBStep("ok")

\* TryProposeChunk has returned; the loop that calls it periodically may
\* call it again
CycleReturns ==
    /\ cycle.pc = "done"
    /\ cycle' = Idle
    /\ UNCHANGED <<l2Blocks, dbChunks, clock, maxBlockNumPerChunk, rowAcc, rollup, proverTasks>>

Next == NewBlock \/ Tick \/ TryProposeChunk \/ CycleReturns

Spec == Init /\ [][Next]_vars

(***************************************************************************)
(* A second specification for the liveness of the proposer: only blocks    *)
(* that are well formed and fit a chunk on their own are imported, and     *)
(* early enough for their timeout to fall within the modelled time.  The   *)
(* clock keeps advancing, and the loop keeps calling TryProposeChunk with  *)
(* calls in which the store and the oracle succeed: a call reaches its     *)
(* transaction only after its reads and its oracle call succeeded, so the  *)
(* last conjunct asks for infinitely many calls that succeed throughout.   *)
(***************************************************************************)
NewWellFormedBlock ==
    /\ clock + chunkTimeoutSec < MaxTime
    /\ ImportBlock(WellFormedProfiles)

LiveNext == NewWellFormedBlock \/ Tick \/ TryProposeChunk \/ CycleReturns

LiveSpec ==
    /\ Init
    /\ [][LiveNext]_vars
    /\ WF_vars(Tick)
    /\ []<><<UpdateChunkInfoInDBStep("ok")>>_vars

(***************************************************************************)
(* A third specification: the proposer constructed with a block cap of     *)
(* three, over a store of light blocks, blocks that pass the transaction   *)
(* ceiling on their own and blocks without row data, so that a cycle       *)
(* fetches blocks behind the one its loop stops at.                        *)
(***************************************************************************)
WideInit ==
    /\ NewStore
    /\ maxBlockNumPerChunk = maxBlockNumPerChunkWide

WideProfiles == {1, 4, 7}

NewWideBlock == ImportBlocks(MaxWideBlocks, WideProfiles, {0})

WideNext == NewWideBlock \/ Tick \/ TryProposeChunk \/ CycleReturns

WideSpec == WideInit /\ [][WideNext]_vars

(***************************************************************************)
(* A fourth specification: chunkRowConsumption on its own.  Any of a set   *)
(* of row vectors is added to an accumulator that starts empty: nil, a     *)
(* vector naming every sub-circuit, vectors naming one, a vector naming    *)
(* one twice and one listing them in the other order.                      *)
(***************************************************************************)
RowVectors ==
    {NilRC}
    \cup {RC(a, b) : a, b \in 0..2}
    \cup {[isNil |-> FALSE, usage |-> u] :
            u \in { <<>>,
                    <<[Name |-> "A", RowNumber |-> 1]>>,
                    <<[Name |-> "B", RowNumber |-> 2]>>,
                    <<[Name |-> "A", RowNumber |-> 1], [Name |-> "A", RowNumber |-> 1]>>,
                    <<[Name |-> "B", RowNumber |-> 1], [Name |-> "A", RowNumber |-> 2]>> }}

\* crc.add(rowConsumption) on the accumulator
AddRows ==
    \E v \in RowVectors :
        LET r == crcAdd(rowAcc.crc, v)
        IN  /\ \A n \in SubCircuits : r.crc[n] <= MaxRowTotal
            /\ rowAcc' = [crc |-> r.crc, prev |-> rowAcc.crc, arg |-> v,
                          err |-> r.err, added |-> TRUE,
                          max |-> rowAcc.max, measured |-> FALSE]
            /\ UNCHANGED <<l2Blocks, dbChunks, clock, cycle, maxBlockNumPerChunk, rollup, proverTasks>>

\* crc.max() on the accumulator: the value it returns is kept, the
\* accumulator is the one the call leaves behind
MaxRows ==
    /\ ~rowAcc.measured
    /\ rowAcc' = [rowAcc EXCEPT !.max = crcMax(rowAcc.crc), !.measured = TRUE]
    /\ UNCHANGED <<l2Blocks, dbChunks, clock, cycle, maxBlockNumPerChunk, rollup, proverTasks>>

AddNext == AddRows \/ MaxRows

AddSpec == Init /\ [][AddNext]_vars

(***************************************************************************)
(* A fifth specification: the calls of ScrollChainTest made to the rollup  *)
(* contract in any order, by the owner or by an externally owned account,  *)
(* with headers of every index up to MaxBatches, matching or altered.      *)
(***************************************************************************)
BatchHeaders(lo, hi) == {BatchHeader(i, d) : i \in lo..hi, d \in DataHashes}

\* the transaction ends: the storage is r.state, the call and its outcome
\* are the last call
Transact(r, call) ==
    /\ rollup' = [state |-> r.state, call |-> [call EXCEPT !.revert = r.revert]]
    /\ UNCHANGED <<l2Blocks, dbChunks, clock, cycle, maxBlockNumPerChunk, rowAcc,
                   proverTasks>>

\* one RevertBatch event is emitted for every committed hash that is zeroed
RevertBatchEvents(before, after) ==
    Cardinality({i \in DOMAIN before.committedBatches :
                    before.committedBatches[i] # 0 /\ after.committedBatches[i] = 0})

ImportGenesisBatch ==
    \E header \in {BatchHeader(0, 0), BatchHeader(0, 1), BatchHeader(1, 1)},
       stateRoot \in {0, 1} :
        Transact(importGenesisBatch(rollup.state, header, stateRoot),
                 [NoCall EXCEPT !.op = "importGenesisBatch", !.header = header,
                                !.postStateRoot = stateRoot])

CommitBatch ==
    \E sender \in Senders, parentBatchHeader \in BatchHeaders(0, MaxBatches - 1),
       chunks \in ChunkLists :
        Transact(commitBatch(rollup.state, sender, parentBatchHeader, chunks),
                 [NoCall EXCEPT !.op = "commitBatch", !.sender = sender,
                                !.header = parentBatchHeader, !.chunks = chunks])

FinalizeBatchWithProof ==
    \E sender \in Senders, header \in BatchHeaders(1, MaxBatches),
       prevStateRoot \in StateRoots, postStateRoot \in PostStateRoots,
       withdrawRoot \in WithdrawRoots :
        Transact(finalizeBatchWithProof(rollup.state, sender, header, prevStateRoot,
                                        postStateRoot, withdrawRoot),
                 [NoCall EXCEPT !.op = "finalizeBatchWithProof", !.sender = sender,
                                !.header = header, !.prevStateRoot = prevStateRoot,
                                !.postStateRoot = postStateRoot,
                                !.withdrawRoot = withdrawRoot])

\* the range of revertBatch(header, count) does not reach past the last
\* committed batch: it is the one batch the header names, or its last batch
\* is committed
RangeIsCommitted(st, header, count) ==
    count <= 1 \/ committedBatches(st, header.batchIndex + count - 1) # 0

\* revertBatch with any count up to the number of batch indices, the genesis
\* index included.  ScrollChainTest makes no call whose count reaches past
\* the last committed batch and so shows nothing about such a call: it is
\* not offered.
RevertBatch ==
    \E sender \in Senders, header \in BatchHeaders(0, MaxBatches),
       count \in 0..(MaxBatches + 1) :
        LET r == revertBatch(rollup.state, sender, header, count)
        IN  /\ RangeIsCommitted(rollup.state, header, count)
            /\ Transact(r, [NoCall EXCEPT !.op = "revertBatch", !.sender = sender,
                                          !.header = header, !.count = count,
                                          !.events = RevertBatchEvents(rollup.state,
                                                                       r.state)])

AddSequencer ==
    \E sender \in Senders, account \in Senders :
        Transact(addSequencer(rollup.state, sender, account),
                 [NoCall EXCEPT !.op = "addSequencer", !.sender = sender,
                                !.account = account])

RemoveSequencer ==
    \E sender \in Senders, account \in Senders :
        Transact(removeSequencer(rollup.state, sender, account),
                 [NoCall EXCEPT !.op = "removeSequencer", !.sender = sender,
                                !.account = account])

AddProver ==
    \E sender \in Senders, account \in Senders :
        Transact(addProver(rollup.state, sender, account),
                 [NoCall EXCEPT !.op = "addProver", !.sender = sender,
                                !.account = account])

RemoveProver ==
    \E sender \in Senders, account \in Senders :
        Transact(removeProver(rollup.state, sender, account),
                 [NoCall EXCEPT !.op = "removeProver", !.sender = sender,
                                !.account = account])

\* the owner pauses a running contract and unpauses a paused one
SetPause ==
    \E sender \in Senders, status \in BOOLEAN :
        /\ sender = Owner => status # rollup.state.paused
        /\ Transact(setPause(rollup.state, sender, status),
                    [NoCall EXCEPT !.op = "setPause", !.sender = sender])

UpdateVerifier ==
    \E sender \in Senders, newVerifier \in {"verifier", "newVerifier"} :
        Transact(updateVerifier(rollup.state, sender, newVerifier),
                 [NoCall EXCEPT !.op = "updateVerifier", !.sender = sender])

UpdateMaxNumTxInChunk ==
    \E sender \in Senders, maxNumTxInChunk \in {100, 10} :
        Transact(updateMaxNumTxInChunk(rollup.state, sender, maxNumTxInChunk),
                 [NoCall EXCEPT !.op = "updateMaxNumTxInChunk", !.sender = sender])

ChainNext ==
    \/ ImportGenesisBatch
    \/ CommitBatch
    \/ FinalizeBatchWithProof
    \/ RevertBatch
    \/ AddSequencer
    \/ RemoveSequencer
    \/ AddProver
    \/ RemoveProver
    \/ SetPause
    \/ UpdateVerifier
    \/ UpdateMaxNumTxInChunk

ChainSpec == Init /\ [][ChainNext]_vars

(***************************************************************************)
(* Quantities of a list of blocks, as the properties below speak of them.  *)
(***************************************************************************)
RECURSIVE TxNumOf(_)
TxNumOf(bs) == IF bs = <<>> THEN 0 ELSE Head(bs).txNum + TxNumOf(Tail(bs))

RECURSIVE CalldataSizeOf(_)
CalldataSizeOf(bs) ==
    IF bs = <<>> THEN 0 ELSE Head(bs).calldataSize + CalldataSizeOf(Tail(bs))

RECURSIVE EntryRows(_, _)
EntryRows(name, usage) ==
    IF usage = <<>> THEN 0
    ELSE (IF Head(usage).Name = name THEN Head(usage).RowNumber ELSE 0)
         + EntryRows(name, Tail(usage))

RECURSIVE CircuitRowsOf(_, _)
CircuitRowsOf(name, bs) ==
    IF bs = <<>> THEN 0
    ELSE EntryRows(name, Head(bs).rowConsumption.usage) + CircuitRowsOf(name, Tail(bs))

MaxRowsOf(bs) ==
    CHOOSE m \in {CircuitRowsOf(n, bs) : n \in SubCircuits} :
        \A n \in SubCircuits : CircuitRowsOf(n, bs) <= m

TxNumExceeded(bs) == TxNumOf(bs) > maxTxNumPerChunk
CalldataSizeExceeded(bs) == CalldataSizeOf(bs) > maxL1CommitCalldataSizePerChunk
CommitGasExceeded(bs) ==
    gasCostIncreaseMultiplierNum * EstimateL1CommitGas(bs)
        > gasCostIncreaseMultiplierDen * maxL1CommitGasPerChunk
RowConsumptionExceeded(bs) == MaxRowsOf(bs) > maxRowConsumptionPerChunk

\* the blocks exceed one of the four ceilings
Exceeds(bs) ==
    \/ TxNumExceeded(bs)
    \/ CalldataSizeExceeded(bs)
    \/ CommitGasExceeded(bs)
    \/ RowConsumptionExceeded(bs)

HasRowData(bs) == \A i \in 1..Len(bs) : ~bs[i].rowConsumption.isNil

\* the blocks of the store that carry the hash of chunk row i, in height order
BlocksOfChunk(i) == SelectSeq(l2Blocks, LAMBDA b : b.chunk_hash = i)

\* the blocks the cycle that has just run fetched
Fetched ==
    [i \in 1..cycle.res.fetched |-> WrappedBlock(l2Blocks[cycle.res.height + i])]

FetchedPrefix(k) == SubSeq(Fetched, 1, k)

OracleErrors == {"oracleCall", "oracleCodeAt", "oracleContractUnknown", "oracleUnpack"}

\* the cycle that has just run read the store, got a hash from the oracle and
\* entered the packing loop with blocks that all carry row data
CyclePacked ==
    /\ cycle.ran
    /\ cycle.res.fetched > 0
    /\ cycle.res.oracle.called
    /\ cycle.res.err \notin OracleErrors
    /\ HasRowData(Fetched)

\* candidate k (0-based) is the first whose inclusion exceeds a ceiling
FirstBreachAt(k) ==
    /\ k < cycle.res.fetched
    /\ Exceeds(FetchedPrefix(k + 1))
    /\ \A j \in 1..k : ~Exceeds(FetchedPrefix(j))

(***************************************************************************)
(* Properties                                                              *)
(***************************************************************************)

\* C1: every persisted chunk is within all four ceilings, computed over
\* exactly the blocks that carry its hash: tx count, calldata size,
\* multiplier x commit gas, and the largest per-circuit row total.
\* The loop compares the commit gas of the chunk before the candidate is
\* appended, so a persisted chunk can pass the commit gas ceiling.
C1_PersistedChunksWithinCeilings ==
    \A i \in 1..Len(dbChunks) : ~Exceeds(BlocksOfChunk(i))

\* C2: when candidate k > 0 is the first whose inclusion exceeds a ceiling,
\* the cycle returns the chunk of exactly the candidates 0..k-1.
\* Fails when the ceiling is the commit gas one: candidate k is then taken.
C2_FirstBreachCutsChunkBeforeIt ==
    CyclePacked =>
        \A k \in 1..(cycle.res.fetched - 1) :
            FirstBreachAt(k) =>
                /\ cycle.res.kind = "chunk"
                /\ cycle.res.chunk.Blocks = FetchedPrefix(k)

\* the limits a list of blocks exceeds, by the error that names each
ExceededLimits(bs) ==
    {e \in {"firstBlockTxNum", "firstBlockL1CommitGas", "firstBlockCalldataSize",
            "firstBlockRowConsumption"} :
        \/ e = "firstBlockTxNum" /\ TxNumExceeded(bs)
        \/ e = "firstBlockL1CommitGas" /\ CommitGasExceeded(bs)
        \/ e = "firstBlockCalldataSize" /\ CalldataSizeExceeded(bs)
        \/ e = "firstBlockRowConsumption" /\ RowConsumptionExceeded(bs)}

\* C3: when the first candidate exceeds a ceiling on its own, the cycle
\* returns an error naming a limit the block exceeds, no chunk, and persists
\* nothing.  Fails for a first block that exceeds only the commit gas ceiling.
C3_FirstBlockOverLimitIsAnError ==
    (CyclePacked /\ Exceeds(FetchedPrefix(1))) =>
        /\ cycle.res.kind = "err"
        /\ cycle.res.err \in ExceededLimits(FetchedPrefix(1))
        /\ cycle.res.chunk.isNil
        /\ cycle.inserted = 0

\* C4: a returned chunk carries the lastAppliedL1Block of its last included
\* block.  The code sets it from the last fetched block before the loop.
C4_LastAppliedL1BlockOfLastIncluded ==
    (cycle.ran /\ cycle.res.kind = "chunk" /\ cycle.res.chunk.Blocks # <<>>) =>
        cycle.res.chunk.LastAppliedL1Block
            = cycle.res.chunk.Blocks[Len(cycle.res.chunk.Blocks)].LastAppliedL1Block

\* C5: the persisted chunks partition a prefix of the block heights: each
\* chunk covers consecutive heights, starts right after the end of its parent
\* (at the first height when it has none), the blocks carrying its hash are
\* exactly the blocks of its range, and no two chunks overlap.
C5_ChunksPartitionPrefix ==
    /\ \A i \in 1..Len(dbChunks) :
          LET c == dbChunks[i]
          IN  /\ c.StartBlockNumber <= c.EndBlockNumber
              /\ c.EndBlockNumber < Len(l2Blocks)
              /\ c.StartBlockNumber =
                    (IF c.parent = 0 THEN 0 ELSE dbChunks[c.parent].EndBlockNumber + 1)
              /\ \A j \in 1..Len(l2Blocks) :
                    (l2Blocks[j].chunk_hash = i)
                        <=> (/\ l2Blocks[j].number >= c.StartBlockNumber
                             /\ l2Blocks[j].number <= c.EndBlockNumber)
    /\ \A i, j \in 1..Len(dbChunks) :
          i < j => dbChunks[i].EndBlockNumber < dbChunks[j].StartBlockNumber

\* a second chunk has just been persisted behind the first
C5_Witness ==
    /\ cycle.ran
    /\ cycle.inserted = 2
    /\ dbChunks[2].StartBlockNumber = dbChunks[1].EndBlockNumber + 1

\* the limit condition as the loop evaluates it for candidate 0
LimitConditionAtIndex0 ==
    \/ TxNumExceeded(FetchedPrefix(1))
    \/ CalldataSizeExceeded(FetchedPrefix(1))
    \/ RowConsumptionExceeded(FetchedPrefix(1))
    \/ OverEstimateL1CommitGas(EstimateL1CommitGas(<<>>)) > maxL1CommitGasPerChunk

\* C6: a returned chunk and an inserted chunk hold at least one block, and a
\* limit condition that holds at candidate 0 ends in an error, never in a
\* chunk.
C6_ChunkNeverEmpty ==
    /\ (cycle.ran /\ ~cycle.res.chunk.isNil) => Len(cycle.res.chunk.Blocks) >= 1
    /\ (cycle.ran /\ cycle.inserted # 0) => Len(BlocksOfChunk(cycle.inserted)) >= 1
    /\ (CyclePacked /\ LimitConditionAtIndex0) =>
            (cycle.res.kind = "err" /\ cycle.res.chunk.isNil /\ cycle.inserted = 0)

\* the first candidate passed only the transaction ceiling and the cycle failed
C6_Witness ==
    /\ CyclePacked
    /\ LimitConditionAtIndex0
    /\ cycle.res.err = "firstBlockTxNum"

\* the cycle fetched every block that has no chunk, they are within the four
\* ceilings, and the first of them is younger than the timeout
QuietBacklog ==
    /\ cycle.ran
    /\ cycle.res.fetched >= 1
    /\ cycle.res.height + cycle.res.fetched = Len(l2Blocks)
    /\ ~Exceeds(Fetched)
    /\ cycle.now - Fetched[1].time < chunkTimeoutSec

\* C7 as stated: blocks within the limits, at most maxBlockNumPerChunk
\* of them, first block younger than the timeout: no chunk is produced.
C7_NoChunkUpToCap ==
    (QuietBacklog /\ cycle.res.fetched <= maxBlockNumPerChunk) =>
        (cycle.res.chunk.isNil /\ cycle.inserted = 0)

\* C7 amended: the same with fewer than maxBlockNumPerChunk blocks.
C7_NoChunkBelowCap ==
    (QuietBacklog /\ cycle.res.fetched < maxBlockNumPerChunk) =>
        (cycle.res.chunk.isNil /\ cycle.inserted = 0)

\* a cycle over a quiet backlog below the cap ended without a chunk
C7_Witness ==
    /\ QuietBacklog
    /\ cycle.res.fetched < maxBlockNumPerChunk
    /\ cycle.res.kind = "nil"
    /\ cycle.res.notEnoughInc

\* C8: when no fetched block breaches a limit and the first block's
\* timestamp + chunkTimeoutSec < now, the chunk of all fetched blocks is
\* returned, also below the block cap; at timestamp + chunkTimeoutSec = now
\* the timeout has not fired (below the cap no chunk is returned).
C8_TimeoutTrigger ==
    (CyclePacked /\ ~Exceeds(Fetched)) =>
        /\ (Fetched[1].time + chunkTimeoutSec < cycle.now) =>
                (cycle.res.kind = "chunk" /\ cycle.res.chunk.Blocks = Fetched)
        /\ (/\ Fetched[1].time + chunkTimeoutSec = cycle.now
            /\ cycle.res.fetched < maxBlockNumPerChunk) =>
                cycle.res.chunk.isNil

\* a chunk below the block cap was cut by the timeout
C8_Witness ==
    /\ CyclePacked
    /\ ~Exceeds(Fetched)
    /\ Fetched[1].time + chunkTimeoutSec < cycle.now
    /\ cycle.res.fetched < maxBlockNumPerChunk
    /\ cycle.res.kind = "chunk"

\* C9: when exactly maxBlockNumPerChunk blocks are fetched and none breaches
\* a limit, the chunk of all of them is returned, also before the timeout.
C9_CapacityTrigger ==
    (CyclePacked /\ ~Exceeds(Fetched) /\ cycle.res.fetched = maxBlockNumPerChunk) =>
        (cycle.res.kind = "chunk" /\ cycle.res.chunk.Blocks = Fetched)

\* a full chunk was cut while its first block was younger than the timeout
C9_Witness ==
    /\ CyclePacked
    /\ ~Exceeds(Fetched)
    /\ cycle.res.fetched = maxBlockNumPerChunk
    /\ cycle.now - Fetched[1].time < chunkTimeoutSec
    /\ cycle.res.kind = "chunk"
    /\ Len(cycle.res.chunk.Blocks) = maxBlockNumPerChunk

\* C10: under LiveSpec every block of the store is eventually covered by a
\* persisted chunk, even if no further block arrives.
C10_EveryBlockEventuallyChunked ==
    \A h \in 0..(MaxBlocks - 1) :
        (Len(l2Blocks) > h) ~> (Len(l2Blocks) > h /\ l2Blocks[h + 1].chunk_hash # 0)

\* the last block of the store, alone in the backlog, was persisted by timeout
C10_Witness ==
    /\ cycle.ran
    /\ cycle.inserted # 0
    /\ cycle.res.fetched = 1
    /\ cycle.res.height + 1 = Len(l2Blocks)
    /\ Fetched[1].time + chunkTimeoutSec < cycle.now
    /\ l2Blocks[Len(l2Blocks)].chunk_hash = cycle.inserted

\* the L1 block range whose digest a hash is: its first and its last block
RangeStartOf(hash) == hash[1]
RangeEndOf(hash) == hash[2]

\* where the range of a chunk starts, given the row of its parent (0: none)
RangeStartAfter(parentIndex) ==
    IF parentIndex = 0 THEN 0
    ELSE IF dbChunks[parentIndex].LastAppliedL1Block = 0 THEN 0
    ELSE dbChunks[parentIndex].LastAppliedL1Block + 1

\* C11: in every cycle that reaches the oracle call the range starts one past
\* the parent's LastAppliedL1Block when a parent exists and that value is
\* nonzero, and at 0 otherwise; so the range of every persisted chunk starts
\* where its parent's LastAppliedL1Block says.
C11_OracleRangeStart ==
    /\ (cycle.ran /\ cycle.res.oracle.called) =>
            cycle.res.oracle.from = RangeStartAfter(cycle.parent)
    /\ \A i \in 1..Len(dbChunks) :
            RangeStartOf(dbChunks[i].L1BlockRangeHash) = RangeStartAfter(dbChunks[i].parent)

\* a second chunk was persisted behind one whose LastAppliedL1Block is nonzero
C11_Witness ==
    /\ cycle.ran
    /\ cycle.inserted = 2
    /\ cycle.res.oracle.called
    /\ dbChunks[1].LastAppliedL1Block # 0
    /\ RangeStartOf(dbChunks[2].L1BlockRangeHash) = dbChunks[1].LastAppliedL1Block + 1


\* the errors the packing loop returns
PackingErrors ==
    {"rowConsumptionNil", "firstBlockTxNum", "firstBlockL1CommitGas",
     "firstBlockCalldataSize", "firstBlockRowConsumption"}

\* C12: a cycle calls the oracle at most once, before the packing loop (a
\* cycle that fails inside the loop has called it), with the range ending at
\* the lastAppliedL1Block of the last fetched block; the chunk the cycle
\* returns, and the row it inserts, carry the hash of exactly that range, also
\* when the chunk holds fewer blocks than were fetched.
C12_OneHashOverFullFetch ==
    cycle.ran =>
        /\ cycle.res.oracle.calls <= 1
        /\ cycle.res.err \in PackingErrors => cycle.res.oracle.called
        /\ cycle.res.oracle.called =>
              /\ cycle.res.fetched > 0
              /\ cycle.res.oracle.to = Fetched[cycle.res.fetched].LastAppliedL1Block
        /\ ~cycle.res.chunk.isNil =>
              /\ cycle.res.oracle.called
              /\ cycle.res.chunk.L1BlockRangeHash
                    = blockRangeHash(cycle.res.oracle.from, cycle.res.oracle.to)
        /\ cycle.inserted # 0 =>
              dbChunks[cycle.inserted].L1BlockRangeHash
                  = blockRangeHash(cycle.res.oracle.from, cycle.res.oracle.to)

\* a chunk of fewer blocks than were fetched was persisted with the hash of
\* the range that ends at the last fetched block, past its own last block
C12_Witness ==
    /\ cycle.ran
    /\ cycle.inserted # 0
    /\ Len(cycle.res.chunk.Blocks) < cycle.res.fetched
    /\ RangeEndOf(dbChunks[cycle.inserted].L1BlockRangeHash)
          = Fetched[cycle.res.fetched].LastAppliedL1Block
    /\ Fetched[cycle.res.fetched].LastAppliedL1Block
          > Fetched[Len(cycle.res.chunk.Blocks)].LastAppliedL1Block


\* C13: block lastAppliedL1Block values never decrease with height (every
\* imported block carries at least the value of the block before it); then
\* every persisted chunk's LastAppliedL1Block is at least its parent's, at
\* least the value of every block it contains and at most the value of its
\* last block.  The last part fails: a chunk cut before the end of the fetch
\* keeps the value of the last fetched block.
C13_LastAppliedL1BlockConsistent ==
    \A i \in 1..Len(dbChunks) :
        LET c == dbChunks[i]
            bs == BlocksOfChunk(i)
        IN  /\ c.parent # 0 =>
                  c.LastAppliedL1Block >= dbChunks[c.parent].LastAppliedL1Block
            /\ \A j \in 1..Len(bs) : c.LastAppliedL1Block >= bs[j].LastAppliedL1Block
            /\ bs # <<>> => c.LastAppliedL1Block <= bs[Len(bs)].LastAppliedL1Block


\* a fetch made now returns the blocks the cycle fetched
SameBlocksToFetch ==
    GetL2WrappedBlocksGEHeight(GetUnchunkedBlockHeight, maxBlockNumPerChunk) = cycle.blocks

\* no chunk row has been added since the cycle read the latest chunk
NoRowSinceStart == GetLatestChunk.index = cycle.parent

\* the cycle that has just run proposed a chunk and failed to persist it
PersistFailed ==
    /\ cycle.ran
    /\ cycle.updateInfoFailureInc
    /\ ~cycle.res.chunk.isNil

\* what a cycle run now would propose when the store and the oracle succeed
ProposedNow == proposeChunk(GetLatestChunk, AllOk, clock)

\* C14: a cycle whose InsertChunk or UpdateChunkHashInRange fails leaves the
\* chunk table and every block assignment as they were before the cycle (the
\* failing transaction writes nothing, the latest chunk is still the one the
\* cycle read and the blocks of the proposed chunk are unassigned), and a
\* cycle run next, at any later time, whose fetch returns the same blocks
\* proposes the same chunk of the same blocks again.
C14_FailedPersistIsAtomic ==
    /\ [][(~cycle.ran /\ PersistFailed') =>
              (dbChunks' = dbChunks /\ l2Blocks' = l2Blocks)]_vars
    /\ [](PersistFailed =>
              /\ cycle.inserted = 0
              /\ NoRowSinceStart
              /\ \A i \in 1..Len(l2Blocks) :
                    (\E k \in 1..Len(cycle.res.chunk.Blocks) :
                        cycle.res.chunk.Blocks[k].number = l2Blocks[i].number)
                        => l2Blocks[i].chunk_hash = 0
              /\ SameBlocksToFetch =>
                    /\ ProposedNow.kind = "chunk"
                    /\ ProposedNow.chunk = cycle.res.chunk)

\* a cycle proposed a chunk of two blocks, failed to persist it, the store
\* holds no chunk and no assigned block, and time has passed since
C14_Witness ==
    /\ PersistFailed
    /\ Len(cycle.res.chunk.Blocks) = 2
    /\ SameBlocksToFetch
    /\ clock > cycle.now
    /\ dbChunks = <<>>
    /\ \A i \in 1..Len(l2Blocks) : l2Blocks[i].chunk_hash = 0


\* the cycle that has just run called the oracle and the call failed
OracleFailed ==
    /\ cycle.ran
    /\ cycle.res.oracle.called
    /\ cycle.res.oracle.reply # OracleOk

\* C15: a cycle whose oracle call fails returns the oracle's error and no
\* chunk, counts as failed and leaves the store as it was, whatever the
\* fetched blocks hold and however old they are.
C15_OracleFailureAbortsCycle ==
    /\ [](OracleFailed =>
              /\ cycle.res.kind = "err"
              /\ cycle.res.err \in OracleErrors
              /\ cycle.res.err
                    = GetL1BlockRangeHash(cycle.res.oracle.reply, cycle.res.oracle.from,
                                          cycle.res.oracle.to).err
              /\ cycle.res.chunk.isNil
              /\ cycle.failureInc
              /\ ~cycle.updateInfoInc
              /\ cycle.inserted = 0
              /\ NoRowSinceStart)
    /\ [][(~cycle.ran /\ OracleFailed') =>
              (dbChunks' = dbChunks /\ l2Blocks' = l2Blocks)]_vars

\* the oracle failed in a cycle over a full window of blocks that are within
\* the ceilings and whose first block has timed out
C15_Witness ==
    /\ OracleFailed
    /\ cycle.res.err \in OracleErrors
    /\ cycle.res.chunk.isNil
    /\ cycle.res.fetched = maxBlockNumPerChunk
    /\ ~Exceeds(Fetched)
    /\ Fetched[1].time + chunkTimeoutSec < clock
    /\ \A i \in 1..Len(l2Blocks) : l2Blocks[i].chunk_hash = 0


\* every block of the store has a chunk
NoUnassignedBlocks == \A i \in 1..Len(l2Blocks) : l2Blocks[i].chunk_hash # 0

\* the cycle read the latest chunk and the height, fetched, and found no
\* block
NothingFetched ==
    /\ cycle.pc \in {"proposed", "done"}
    /\ ~cycle.latestErr
    /\ cycle.res.kind = "nil"
    /\ cycle.res.fetched = 0

\* C16: a cycle whose fetch succeeds while no block of the store is
\* unassigned fetches nothing, and a cycle that fetched nothing ends with no
\* chunk and no error: the oracle is not called, neither failure counter is
\* incremented, no chunk row is added and the transaction step writes
\* nothing.
C16_NothingToChunk ==
    /\ [][(NoUnassignedBlocks /\ GetL2WrappedBlocksGEHeightStep("ok")) =>
              (NothingFetched' /\ cycle'.pc = "proposed")]_vars
    /\ [](NothingFetched =>
              /\ cycle.res.err = "none"
              /\ cycle.res.chunk.isNil
              /\ ~cycle.res.oracle.called
              /\ cycle.res.oracle.calls = 0
              /\ ~cycle.failureInc
              /\ ~cycle.updateInfoInc
              /\ ~cycle.updateInfoFailureInc
              /\ cycle.inserted = 0
              /\ NoRowSinceStart)
    /\ [][(~cycle.ran /\ cycle'.ran /\ NothingFetched') =>
              (dbChunks' = dbChunks /\ l2Blocks' = l2Blocks)]_vars

\* a cycle ran over a store whose blocks all have a chunk and did nothing
C16_Witness ==
    /\ cycle.ran
    /\ cycle.circleInc
    /\ l2Blocks # <<>>
    /\ NoUnassignedBlocks
    /\ NothingFetched
    /\ cycle.res.err = "none"
    /\ ~cycle.res.oracle.called
    /\ cycle.inserted = 0


\* the cycle that has just run packed blocks of which none breaches a limit,
\* fewer than the block cap, the first not timed out
Incomplete ==
    /\ CyclePacked
    /\ cycle.res.fetched < maxBlockNumPerChunk
    /\ ~(Fetched[1].time + chunkTimeoutSec < cycle.now)
    /\ ~Exceeds(Fetched)

\* C17: a cycle that ends incomplete returns no chunk and writes nothing: the
\* chunk table and the block assignments are as before, the fetched blocks
\* are still unassigned and the latest chunk is still the cycle's parent; a
\* cycle run again at the same clock value whose fetch returns the same
\* blocks returns the same result.
C17_IncompleteCycleIsIdempotent ==
    /\ [][(~cycle.ran /\ Incomplete') =>
              (dbChunks' = dbChunks /\ l2Blocks' = l2Blocks)]_vars
    /\ [](Incomplete =>
              /\ cycle.res.kind = "nil"
              /\ cycle.res.chunk.isNil
              /\ cycle.res.notEnoughInc
              /\ ~cycle.updateInfoInc
              /\ cycle.inserted = 0
              /\ \A i \in 1..cycle.res.fetched :
                    l2Blocks[cycle.res.height + i].chunk_hash = 0
              /\ NoRowSinceStart
              /\ (SameBlocksToFetch /\ clock = cycle.now) => ProposedNow = cycle.res)

\* a cycle over one young block ended incomplete behind a persisted chunk
C17_Witness ==
    /\ Incomplete
    /\ cycle.res.notEnoughInc
    /\ cycle.parent # 0
    /\ SameBlocksToFetch
    /\ clock = cycle.now
    /\ l2Blocks[Len(l2Blocks)].chunk_hash = 0


\* the first block without a chunk, as a one-block list (empty when every
\* block has a chunk)
FirstUnassigned ==
    LET un == {i \in 1..Len(l2Blocks) : l2Blocks[i].chunk_hash = 0}
    IN  IF un = {} THEN <<>>
        ELSE <<WrappedBlock(l2Blocks[CHOOSE i \in un : \A j \in un : i <= j])>>

\* the first unassigned block carries row data and exceeds a limit on its own
FirstUnassignedExceeds ==
    /\ FirstUnassigned # <<>>
    /\ HasRowData(FirstUnassigned)
    /\ Exceeds(FirstUnassigned)

\* C18: once the first unassigned block exceeds a limit on its own, it stays
\* so: no step assigns a block or adds a chunk, and every cycle that packs
\* the blocks it fetched fails with a first-block error that names a limit
\* the block exceeds.  Fails for a block that exceeds only the commit gas
\* ceiling: the cycle returns no error, and the block is later persisted.
C18_FirstBlockErrorIsTerminal ==
    [][FirstUnassignedExceeds =>
          /\ FirstUnassignedExceeds'
          /\ FirstUnassigned' = FirstUnassigned
          /\ dbChunks' = dbChunks
          /\ \A i \in 1..Len(l2Blocks) : l2Blocks'[i] = l2Blocks[i]
          /\ PackStep =>
                /\ cycle'.res.kind = "err"
                /\ cycle'.res.err \in ExceededLimits(FirstUnassigned)
                /\ cycle'.failureInc]_vars


\* the cycle that has just run fetched blocks and got a hash from the oracle
CycleEnteredLoop ==
    /\ cycle.ran
    /\ cycle.res.fetched > 0
    /\ cycle.res.oracle.called
    /\ cycle.res.err \notin OracleErrors

\* fetched block k (1-based) is the first without row data
FirstNilRowsAt(k) ==
    /\ k \in 1..cycle.res.fetched
    /\ Fetched[k].rowConsumption.isNil
    /\ HasRowData(FetchedPrefix(k - 1))

\* C19 as stated: a fetched block without row data, wherever it is among
\* the fetched blocks, makes the cycle fail with no chunk returned or
\* persisted.
C19_NilRowsAnywhereAborts ==
    (CycleEnteredLoop /\ ~HasRowData(Fetched)) =>
        /\ cycle.res.kind = "err"
        /\ cycle.res.chunk.isNil
        /\ cycle.inserted = 0

\* C19 amended: a fetched block without row data makes the cycle fail with
\* the accumulator's error, no chunk returned or persisted, when the blocks
\* fetched before it are within all four limits (the loop reaches it).
C19_NilRowsReachedAborts ==
    CycleEnteredLoop =>
        \A k \in 1..cycle.res.fetched :
            (FirstNilRowsAt(k) /\ ~Exceeds(FetchedPrefix(k - 1))) =>
                /\ cycle.res.kind = "err"
                /\ cycle.res.err = "rowConsumptionNil"
                /\ cycle.res.chunk.isNil
                /\ cycle.failureInc
                /\ cycle.inserted = 0

\* the third of three fetched blocks has no row data and the cycle failed
C19_Witness ==
    /\ CycleEnteredLoop
    /\ cycle.res.fetched = 3
    /\ FirstNilRowsAt(3)
    /\ ~Exceeds(FetchedPrefix(2))
    /\ cycle.res.err = "rowConsumptionNil"
    /\ dbChunks = <<>>


\* C20: add with a nil vector returns an error and leaves the accumulator as
\* it was; with a vector it returns no error and each circuit's total grows
\* by the row counts of the entries that name it (by nothing when none does);
\* no add ever lowers a total.
C20_AddAccumulatesPerCircuit ==
    /\ [](rowAcc.added =>
            IF rowAcc.arg.isNil
            THEN rowAcc.err /\ rowAcc.crc = rowAcc.prev
            ELSE /\ ~rowAcc.err
                 /\ \A n \in SubCircuits :
                       rowAcc.crc[n] = rowAcc.prev[n] + EntryRows(n, rowAcc.arg.usage))
    /\ [][\A n \in SubCircuits : rowAcc'.crc[n] >= rowAcc.crc[n]]_vars

\* a vector naming one circuit twice was added to totals that were not zero:
\* that circuit's total grew by both entries, the other's stayed
C20_Witness ==
    /\ rowAcc.added
    /\ ~rowAcc.err
    /\ Len(rowAcc.arg.usage) = 2
    /\ rowAcc.arg.usage[1].Name = rowAcc.arg.usage[2].Name
    /\ rowAcc.prev["A"] > 0
    /\ rowAcc.prev["B"] > 0
    /\ rowAcc.crc["A"] = rowAcc.prev["A"] + 2
    /\ rowAcc.crc["B"] = rowAcc.prev["B"]


\* C21: max returns the largest total any one sub-circuit has accumulated,
\* never the totals of several circuits added up: no total is above the
\* value, the value is one of the totals unless every total is zero, and it
\* is zero for the accumulator nothing was added to; the call leaves the
\* accumulator as it found it.
C21_MaxIsLargestTotal ==
    /\ [](rowAcc.measured =>
            /\ \A n \in SubCircuits : rowAcc.crc[n] <= rowAcc.max
            /\ \/ \E n \in SubCircuits : rowAcc.crc[n] = rowAcc.max
               \/ rowAcc.max = 0 /\ rowAcc.crc = EmptyCrc
            /\ (~rowAcc.added => rowAcc.max = 0))
    /\ [][rowAcc'.measured /\ ~rowAcc.measured =>
            /\ rowAcc'.crc = rowAcc.crc
            /\ rowAcc'.prev = rowAcc.prev
            /\ rowAcc'.arg = rowAcc.arg]_vars

\* the vector {A: 2, B: 1} was added twice and max then returned 4, the
\* larger of the totals 4 and 2, not their sum
C21_Witness ==
    /\ rowAcc.measured
    /\ rowAcc.added
    /\ rowAcc.arg = RC(2, 1)
    /\ rowAcc.prev = [c \in SubCircuits |-> IF c = "A" THEN 2 ELSE 1]
    /\ rowAcc.crc = [c \in SubCircuits |-> IF c = "A" THEN 4 ELSE 2]
    /\ rowAcc.max = 4


\* the cycle that has just run got a zero-length output from the contract call
EmptyOracleOutput ==
    /\ cycle.ran
    /\ cycle.res.oracle.called
    /\ cycle.res.oracle.reply.call = "ok"
    /\ cycle.res.oracle.reply.output = "empty"

\* C22: when the contract call returns a zero-length output the code at the
\* oracle address is looked up; empty code gives the contract-missing error,
\* a failed lookup gives the lookup's error, and whatever the code is no
\* hash comes back: the cycle ends with an oracle error and without a chunk.
C22_EmptyOutputChecksCode ==
    EmptyOracleOutput =>
        /\ cycle.res.oracle.codeAt
        /\ cycle.res.oracle.reply.code = "none" => cycle.res.err = "oracleContractUnknown"
        /\ cycle.res.oracle.reply.code = "err" => cycle.res.err = "oracleCodeAt"
        /\ cycle.res.oracle.reply.code \in {"none", "err"} => ~cycle.res.oracle.unpacked
        /\ cycle.res.oracle.hash = NoHash
        /\ cycle.res.err \in OracleErrors
        /\ cycle.res.kind = "err"
        /\ cycle.res.chunk.isNil

\* a cycle whose call returned nothing from an address without code
C22_Witness ==
    /\ EmptyOracleOutput
    /\ cycle.res.oracle.reply.code = "none"
    /\ cycle.res.oracle.codeAt
    /\ cycle.res.err = "oracleContractUnknown"
    /\ cycle.res.fetched = 2

\* the cycle that has just run called the contract and the call itself failed
OracleCallFailed ==
    /\ cycle.ran
    /\ cycle.res.oracle.called
    /\ cycle.res.oracle.reply.call = "err"

\* C23: one invocation calls the contract once at most; when the call fails
\* its error is what the invocation and the cycle return, and neither a
\* second call nor a code lookup nor a decoding follows.
C23_CallErrorReturnedAtOnce ==
    /\ cycle.res.oracle.contractCalls <= 1
    /\ cycle.res.oracle.calls <= 1
    /\ OracleCallFailed =>
          /\ cycle.res.oracle.contractCalls = 1
          /\ ~cycle.res.oracle.codeAt
          /\ ~cycle.res.oracle.unpacked
          /\ cycle.res.oracle.hash = NoHash
          /\ cycle.res.kind = "err"
          /\ cycle.res.err = "oracleCall"

\* a cycle over two fetched blocks whose contract call failed
C23_Witness ==
    /\ OracleCallFailed
    /\ cycle.res.oracle.contractCalls = 1
    /\ cycle.res.err = "oracleCall"
    /\ cycle.res.fetched = 2
    /\ cycle.failureInc


RECURSIVE GasUsedOf(_)
GasUsedOf(bs) == IF bs = <<>> THEN 0 ELSE Head(bs).gasUsed + GasUsedOf(Tail(bs))

\* the cycle that has just run returned a chunk
ChunkReturned ==
    /\ cycle.ran
    /\ cycle.res.kind = "chunk"

\* C24: whenever a cycle returns a chunk, the values it reports are those
\* of the blocks of that chunk: the number of transactions, the estimated
\* L1 commit gas before scaling, the calldata size, the largest per-circuit
\* row total, the gas used and the number of blocks.
C24_SnapshotOfReturnedChunk ==
    ChunkReturned =>
        LET bs == cycle.res.chunk.Blocks
            m == cycle.res.metrics
        IN  /\ m.set
            /\ m.chunkTxNum = TxNumOf(bs)
            /\ m.chunkEstimateL1CommitGas = EstimateL1CommitGas(bs)
            /\ m.totalL1CommitCalldataSize = CalldataSizeOf(bs)
            /\ m.maxTxConsumption = MaxRowsOf(bs)
            /\ m.totalTxGasUsed = GasUsedOf(bs)
            /\ m.chunkBlocksNum = Len(bs)


\* the cycle that has just run went through all the blocks it fetched
\* without a breach and returned them as a chunk because the first of them
\* had timed out
ReadyByTimeout ==
    /\ ChunkReturned
    /\ Len(cycle.res.chunk.Blocks) = cycle.res.fetched
    /\ FirstBlockTimeout(cycle.res.chunk.Blocks[1].time, cycle.now)

\* C25: a cycle increments the first-block-timeout counter exactly when its
\* chunk is cut because the first block has timed out; a chunk cut only
\* because the block count reached the cap, or cut by a limit breach, does
\* not increment it.
C25_TimeoutCounterOnlyOnTimeout ==
    cycle.ran => (cycle.res.timeoutReachedInc <=> ReadyByTimeout)


\* The cycle that has just run was cancelled at one of its suspension
\* points: the call that was waiting there (GetLatestChunk, one of the two
\* block reads, the contract call or the code lookup of the oracle,
\* InsertChunk or UpdateChunkHashInRange) returned the context's error.
Cancelled ==
    /\ cycle.ran
    /\ \/ cycle.latestErr
       \/ cycle.res.err = "dbRead"
       \/ /\ cycle.res.oracle.called
          /\ \/ cycle.res.oracle.reply.call = "err"
             \/ /\ cycle.res.oracle.reply.output = "empty"
                /\ cycle.res.oracle.reply.code = "err"
       \/ cycle.updateInfoFailureInc

\* C26: a cycle cancelled at a store read, at the oracle or inside the
\* persistence transaction ends without a chunk row inserted and without a
\* block's chunk assignment changed.
C26_CancelledCyclePersistsNothing ==
    /\ [](Cancelled => (cycle.inserted = 0 /\ (~cycle.latestErr => NoRowSinceStart)))
    /\ [][(~cycle.ran /\ Cancelled') =>
              (dbChunks' = dbChunks /\ l2Blocks' = l2Blocks)]_vars

\* after a first chunk was persisted, a cycle proposed the next chunk and
\* was cancelled inside the transaction: the table still holds that one
\* chunk and the proposed block is unassigned
C26_Witness ==
    /\ Cancelled
    /\ cycle.updateInfoFailureInc
    /\ Len(dbChunks) = 1
    /\ cycle.res.kind = "chunk"
    /\ Len(cycle.res.chunk.Blocks) = 1
    /\ \E i \in 1..Len(l2Blocks) :
          /\ l2Blocks[i].number = cycle.res.chunk.Blocks[1].number
          /\ l2Blocks[i].chunk_hash = 0


(***************************************************************************)
(* The rollup contract: a step of ChainSpec is one call; rollup'.call is   *)
(* that call and rollup.state the storage it found.                        *)
(***************************************************************************)
\* the call is a commitBatch of a registered sequencer to a running
\* contract, with chunks and with the header of a committed batch as parent
CommitOnCommittedParent(st, call) ==
    /\ call.op = "commitBatch"
    /\ st.isSequencer[call.sender]
    /\ ~st.paused
    /\ Len(call.chunks) > 0
    /\ st.committedBatches[call.header.batchIndex] = computeBatchHash(call.header)

\* C27: a batch index is committed at most once.  A commitBatch that
\* succeeds writes a nonzero hash at the index after its parent, which was
\* zero, and touches no other index; a further commitBatch on a parent whose
\* next index is committed reverts with "batch already committed" and
\* leaves the committed hashes (and the rest of the storage) as they were.
C27_CommitAtMostOnce ==
    [][rollup'.call.op = "commitBatch" =>
        LET st == rollup.state
            after == rollup'.state
            call == rollup'.call
            i == call.header.batchIndex + 1
        IN  /\ call.revert = "none" =>
                  /\ CommitOnCommittedParent(st, call)
                  /\ st.committedBatches[i] = 0
                  /\ after.committedBatches[i] # 0
                  /\ \A j \in DOMAIN st.committedBatches :
                        j # i => after.committedBatches[j] = st.committedBatches[j]
            /\ (CommitOnCommittedParent(st, call) /\ st.committedBatches[i] # 0) =>
                  /\ call.revert = "batch already committed"
                  /\ after = st
            /\ call.revert # "none" => after.committedBatches = st.committedBatches
       ]_vars

\* batch 1 is committed and a sequencer's commitBatch on the genesis header
\* was turned down as already committed
C27_Witness ==
    /\ rollup.call.op = "commitBatch"
    /\ rollup.call.sender = Operator
    /\ rollup.call.header = BatchHeader(0, 1)
    /\ rollup.call.revert = "batch already committed"
    /\ rollup.state.committedBatches[1] # 0
    /\ rollup.state.isSequencer[Operator]

\* the call is a finalizeBatchWithProof of a registered prover to a running
\* contract with the header of a committed batch
FinalizeOfCommitted(st, call) ==
    /\ call.op = "finalizeBatchWithProof"
    /\ st.isProver[call.sender]
    /\ ~st.paused
    /\ st.committedBatches[call.header.batchIndex] = computeBatchHash(call.header)

\* C28: a committed batch is finalized at most once.  A
\* finalizeBatchWithProof that succeeds finds the batch not finalized and
\* leaves it finalized, with the supplied state root and withdraw root and
\* with lastFinalizedBatchIndex at its index; a call for a batch that is
\* finalized reverts with "batch already verified"; a call whose previous
\* state root is not the finalized root of the batch before reverts with
\* "incorrect previous state root"; a call that reverts changes nothing.
C28_FinalizeAtMostOnce ==
    [][rollup'.call.op = "finalizeBatchWithProof" =>
        LET st == rollup.state
            after == rollup'.state
            call == rollup'.call
            i == call.header.batchIndex
            prevMatches == st.finalizedStateRoots[i - 1] = call.prevStateRoot
        IN  /\ call.revert = "none" =>
                  /\ FinalizeOfCommitted(st, call)
                  /\ prevMatches
                  /\ ~isBatchFinalized(st, i)
                  /\ isBatchFinalized(after, i)
                  /\ after.finalizedStateRoots[i] = call.postStateRoot
                  /\ after.withdrawRoots[i] = call.withdrawRoot
                  /\ after.lastFinalizedBatchIndex = i
            /\ (FinalizeOfCommitted(st, call) /\ prevMatches /\ isBatchFinalized(st, i)) =>
                  call.revert = "batch already verified"
            /\ (FinalizeOfCommitted(st, call) /\ ~prevMatches) =>
                  call.revert = "incorrect previous state root"
            /\ call.revert # "none" => after = st
       ]_vars

\* batch 1 is finalized with the roots 2 and 3 and a prover's second
\* finalization of it was turned down
C28_Witness ==
    /\ rollup.call.op = "finalizeBatchWithProof"
    /\ rollup.call.header = BatchHeader(1, 1)
    /\ rollup.call.prevStateRoot = 1
    /\ rollup.call.revert = "batch already verified"
    /\ isBatchFinalized(rollup.state, 1)
    /\ rollup.state.finalizedStateRoots[1] = 2
    /\ rollup.state.withdrawRoots[1] = 3
    /\ rollup.state.lastFinalizedBatchIndex = 1

\* the index of the last committed batch (-1: none is committed)
LastCommittedBatch(st) ==
    LET committed == {j \in DOMAIN st.committedBatches : st.committedBatches[j] # 0}
    IN  IF committed = {} THEN -1
        ELSE CHOOSE j \in committed : \A k \in committed : k <= j

\* revertBatch(header, count) may go through: count is not zero, the header
\* is that of the committed batch at its index, the count batches from that
\* index on end at the last committed batch, and none of them is finalized
RevertAllowed(st, header, count) ==
    /\ count > 0
    /\ st.committedBatches[header.batchIndex] = computeBatchHash(header)
    /\ header.batchIndex + count - 1 = LastCommittedBatch(st)
    /\ \A j \in header.batchIndex..(header.batchIndex + count - 1) :
          ~isBatchFinalized(st, j)

OwnerCalls ==
    {"addSequencer", "removeSequencer", "addProver", "removeProver", "revertBatch",
     "setPause", "updateVerifier", "updateMaxNumTxInChunk"}

\* C30: commitBatch reverts unless its sender is registered as sequencer at
\* the time of the call, finalizeBatchWithProof unless its sender is
\* registered as prover, and the calls of the owner unless the owner sends
\* them; nobody is registered at first, and an account's registration
\* changes only by the owner's add (to registered) and remove (to not
\* registered) of that account.
C30_AccessControl ==
    /\ [](rollup.call.op = "none" =>
              \A a \in Senders : ~rollup.state.isSequencer[a] /\ ~rollup.state.isProver[a])
    /\ [][LET st == rollup.state
              after == rollup'.state
              call == rollup'.call
          IN  /\ (call.op = "commitBatch" /\ ~st.isSequencer[call.sender]) =>
                    (call.revert # "none" /\ after = st)
              /\ (call.op = "finalizeBatchWithProof" /\ ~st.isProver[call.sender]) =>
                    (call.revert # "none" /\ after = st)
              /\ (call.op \in OwnerCalls /\ call.sender # Owner) =>
                    (call.revert # "none" /\ after = st)
              /\ \A a \in Senders :
                    /\ after.isSequencer[a] # st.isSequencer[a] =>
                          /\ call.revert = "none"
                          /\ call.sender = Owner
                          /\ call.account = a
                          /\ call.op = (IF after.isSequencer[a] THEN "addSequencer"
                                                               ELSE "removeSequencer")
                    /\ after.isProver[a] # st.isProver[a] =>
                          /\ call.revert = "none"
                          /\ call.sender = Owner
                          /\ call.account = a
                          /\ call.op = (IF after.isProver[a] THEN "addProver"
                                                            ELSE "removeProver")
              /\ (call.op = "addSequencer" /\ call.revert = "none") =>
                    after.isSequencer[call.account]
              /\ (call.op = "removeSequencer" /\ call.revert = "none") =>
                    ~after.isSequencer[call.account]
              /\ (call.op = "addProver" /\ call.revert = "none") =>
                    after.isProver[call.account]
              /\ (call.op = "removeProver" /\ call.revert = "none") =>
                    ~after.isProver[call.account]
         ]_vars

\* an account that committed batch 1 as sequencer, was removed and is still
\* a prover had its next commitBatch turned down
C30_Witness ==
    /\ rollup.call.op = "commitBatch"
    /\ rollup.call.sender = Operator
    /\ rollup.call.header = BatchHeader(1, 1)
    /\ rollup.call.revert = "caller not sequencer"
    /\ ~rollup.state.isSequencer[Operator]
    /\ rollup.state.isProver[Operator]
    /\ rollup.state.committedBatches[1] # 0
    /\ rollup.state.committedBatches[2] = 0


\* C31: for every candidate block the limit condition was evaluated for, the
\* commit gas that was scaled and compared with maxL1CommitGasPerChunk is
\* the commit gas of the whole prospective chunk, the blocks before the
\* candidate and the candidate itself; for the first candidate it is the
\* gas of a chunk of one block.
C31_GasOfProspectiveChunk ==
    CycleEnteredLoop =>
        \A k \in 1..Len(cycle.res.gasCompared) :
            cycle.res.gasCompared[k] = EstimateL1CommitGas(FetchedPrefix(k))


\* C32: blocks apply L1 blocks in non-decreasing order of height, and every
\* cycle that calls the oracle calls it with a range that is well formed,
\* from <= to, also when the fetched blocks apply no L1 block beyond the
\* parent chunk's LastAppliedL1Block.
C32_OracleRangeWellFormed ==
    /\ \A i \in 1..Len(l2Blocks) : \A j \in i..Len(l2Blocks) :
          l2Blocks[i].LastAppliedL1Block <= l2Blocks[j].LastAppliedL1Block
    /\ (cycle.ran /\ cycle.res.oracle.called) =>
          cycle.res.oracle.from <= cycle.res.oracle.to


\* the transaction of the cycle was run and succeeded
TransactionSucceeded ==
    /\ cycle.updateInfoInc
    /\ ~cycle.updateInfoFailureInc

\* the chunk rows the cycle added: those behind the latest chunk it read
RowsInsertedByCycle == Len(dbChunks) - cycle.parent

\* C34: a cycle inserts at most one chunk row; it inserts one exactly when
\* proposeChunk returned a chunk without error and the transaction succeeded,
\* and the parent of that row is the latest chunk the cycle read at its
\* start; a cycle whose read of the latest chunk fails runs no proposal and
\* changes neither the chunk rows nor the blocks.  A cycle under way has
\* added no row.
C34_OneChunkPerSuccessfulCycle ==
    /\ [](cycle.pc \notin {"idle", "done"} => RowsInsertedByCycle = 0)
    /\ [](cycle.ran =>
            /\ cycle.latestErr =>
                  /\ cycle.res = NilResult
                  /\ ~cycle.circleInc
                  /\ ~cycle.updateInfoInc
                  /\ cycle.inserted = 0
            /\ ~cycle.latestErr =>
                  /\ RowsInsertedByCycle \in {0, 1}
                  /\ (RowsInsertedByCycle = 1)
                        <=> (cycle.res.kind = "chunk" /\ cycle.res.err = "none"
                             /\ TransactionSucceeded)
                  /\ (RowsInsertedByCycle = 1) =>
                        /\ cycle.inserted = Len(dbChunks)
                        /\ dbChunks[Len(dbChunks)].parent = cycle.parent)
    /\ [][/\ Len(dbChunks') \in {Len(dbChunks), Len(dbChunks) + 1}
          /\ \A i \in 1..Len(dbChunks) : dbChunks'[i] = dbChunks[i]
          /\ (~cycle.ran /\ cycle'.latestErr) =>
                (dbChunks' = dbChunks /\ l2Blocks' = l2Blocks)]_vars

\* a cycle has just inserted a chunk behind the chunk it read as the latest
C34_Witness ==
    /\ cycle.ran
    /\ cycle.parent = 1
    /\ cycle.inserted = 2
    /\ dbChunks[2].parent = 1
    /\ TransactionSucceeded

\* a cycle has just failed to read the latest chunk, with a chunk due
C34_WitnessLatestErr ==
    /\ cycle.ran
    /\ cycle.latestErr
    /\ ProposedNow.kind = "chunk"


\* the first height no chunk covered when the cycle started: the height
\* behind the chunk the cycle read as the latest
UnassignedHeightAtStart ==
    IF cycle.parent = 0 THEN 0 ELSE dbChunks[cycle.parent].EndBlockNumber + 1

\* C35: a chunk returned by proposeChunk holds at least one block and at most
\* maxBlockNumPerChunk blocks, and its blocks are the first blocks, in the
\* order they were fetched, of the blocks the cycle fetched, which start at
\* the first unassigned height and follow each other.
C35_ChunkIsPrefixOfFetched ==
    ChunkReturned =>
        LET n == Len(cycle.res.chunk.Blocks)
        IN  /\ n >= 1
            /\ n <= maxBlockNumPerChunk
            /\ n <= cycle.res.fetched
            /\ cycle.res.fetched <= maxBlockNumPerChunk
            /\ cycle.res.height = UnassignedHeightAtStart
            /\ cycle.res.height + cycle.res.fetched <= Len(l2Blocks)
            /\ cycle.res.chunk.Blocks = FetchedPrefix(n)
            /\ \A k \in 1..n :
                  cycle.res.chunk.Blocks[k].number = UnassignedHeightAtStart + k - 1

\* a chunk was returned that holds the first of the two blocks fetched, the
\* second one having breached a limit
C35_Witness ==
    /\ ChunkReturned
    /\ Len(cycle.res.chunk.Blocks) = 1
    /\ cycle.res.fetched = 2
    /\ cycle.res.chunk.Blocks[1] = Fetched[1]

\* a chunk was returned that starts behind the first chunk
C35_WitnessSecondChunk ==
    /\ ChunkReturned
    /\ cycle.parent = 1
    /\ cycle.res.height > 0
    /\ cycle.res.chunk.Blocks[1].number = cycle.res.height


(***************************************************************************)
(* A specification of the first iteration of the packing loop: the store   *)
(* receives one block, of any usage of the four limited resources up to    *)
(* one above the lowest ceiling, and one cycle runs with the store and the *)
(* oracle succeeding.                                                      *)
(***************************************************************************)
FirstBlockUsages == 1..4

FirstBlockRows == {RC(1, 1), RC(0, 5)}

FirstNewBlock ==
    /\ l2Blocks = <<>>
    /\ \E tx \in FirstBlockUsages, cd \in FirstBlockUsages, gas \in FirstBlockUsages,
          rc \in FirstBlockRows :
         l2Blocks' = <<[number |-> 0, time |-> clock, txNum |-> tx, calldataSize |-> cd,
                        commitGas |-> gas, gasUsed |-> tx, rowConsumption |-> rc,
                        LastAppliedL1Block |-> 1, chunk_hash |-> 0]>>
    /\ UNCHANGED <<dbChunks, clock, cycle, maxBlockNumPerChunk, rowAcc, rollup, proverTasks>>

FirstNext == FirstNewBlock \/ TryProposeChunkOk

FirstSpec == Init /\ [][FirstNext]_vars

\* the first, in the order of the four tests at candidate 0, of the limits
\* a list of blocks exceeds
FirstExceededLimit(bs) ==
    IF TxNumExceeded(bs) THEN "firstBlockTxNum"
    ELSE IF CommitGasExceeded(bs) THEN "firstBlockL1CommitGas"
    ELSE IF CalldataSizeExceeded(bs) THEN "firstBlockCalldataSize"
    ELSE IF RowConsumptionExceeded(bs) THEN "firstBlockRowConsumption"
    ELSE "none"

\* C36: when the first candidate exceeds two or more ceilings on its own,
\* the cycle ends in the error that names the first of them in the order tx
\* count, L1 commit gas, calldata size, row consumption, and in no chunk.
\* Fails for a first block over the commit gas ceiling and within the tx
\* ceiling.
C36_FirstExceededLimitIsNamed ==
    (CyclePacked /\ Cardinality(ExceededLimits(FetchedPrefix(1))) >= 2) =>
        /\ cycle.res.kind = "err"
        /\ cycle.res.err = FirstExceededLimit(FetchedPrefix(1))
        /\ cycle.res.chunk.isNil


(***************************************************************************)
(* A specification of checkParameter: the coordinator starts with any set  *)
(* of provers holding a task, and a prover's request arrives with any      *)
(* context, any VK and either outcome of the lookup.                       *)
(***************************************************************************)
GinContexts ==
    [PublicKey : PublicKeys \cup {Absent}, ProverName : ProverNames \cup {Absent},
     ProverVersion : ProverVersions \cup {Absent}]

GetTaskParameters == [VK : VKs]

ProverInit ==
    /\ l2Blocks = <<>>
    /\ dbChunks = <<>>
    /\ clock = 0
    /\ cycle = Idle
    /\ maxBlockNumPerChunk = maxBlockNumPerChunkSmall
    /\ rowAcc = NoAdd
    /\ rollup = NewRollup
    /\ \E assigned \in SUBSET PublicKeys :
          proverTasks = [NewBaseProverTask EXCEPT !.assigned = assigned]

CheckParameter ==
    /\ \E ctx \in GinContexts, getTaskParameter \in GetTaskParameters,
          lookup \in {"ok", "err"} :
         proverTasks' = [proverTasks EXCEPT !.call =
             [made |-> TRUE, ctx |-> ctx, getTaskParameter |-> getTaskParameter,
              lookup |-> lookup,
              out |-> checkParameter(ctx, getTaskParameter, proverTasks.assigned, lookup)]]
    /\ UNCHANGED <<l2Blocks, dbChunks, clock, cycle, maxBlockNumPerChunk, rowAcc, rollup>>

ProverNext == CheckParameter

ProverSpec == ProverInit /\ [][ProverNext]_vars

\* the request carries the public key, the name and the version of the prover
AllPresent ==
    /\ proverTasks.call.ctx.PublicKey # Absent
    /\ proverTasks.call.ctx.ProverName # Absent
    /\ proverTasks.call.ctx.ProverVersion # Absent

\* C37: checkParameter returns a prover context exactly when the request
\* carries public key, prover name and prover version, its VK is the
\* coordinator's, and the lookup says the public key holds no task; the
\* context is that of the request; every other call returns an error and no
\* context; on a VK that differs no lookup is made and the error is the
\* incompatible version when the version is not accepted, else the
\* incompatible VK.
C37_CheckParameter ==
    proverTasks.call.made =>
        LET call == proverTasks.call
            out  == call.out
        IN  /\ (out.err = "none")
                  <=> (/\ AllPresent
                       /\ call.getTaskParameter.VK = vk
                       /\ call.lookup = "ok"
                       /\ call.ctx.PublicKey \notin proverTasks.assigned)
            /\ (out.err = "none") =>
                  /\ ~out.ptc.isNil
                  /\ out.ptc.PublicKey = call.ctx.PublicKey
                  /\ out.ptc.ProverName = call.ctx.ProverName
                  /\ out.ptc.ProverVersion = call.ctx.ProverVersion
                  /\ out.ptc.PublicKey \notin proverTasks.assigned
            /\ (out.err # "none") => out.ptc.isNil
            /\ (AllPresent /\ call.getTaskParameter.VK # vk) =>
                  /\ out.lookups = 0
                  /\ out.err = (IF CheckScrollProverVersion(call.ctx.ProverVersion)
                                THEN "incompatibleVK" ELSE "incompatibleProverVersion")

\* a prover that holds a task asked with a complete request and the right VK
C37_Witness ==
    /\ proverTasks.call.made
    /\ AllPresent
    /\ proverTasks.call.getTaskParameter.VK = vk
    /\ proverTasks.call.lookup = "ok"
    /\ proverTasks.call.ctx.PublicKey \in proverTasks.assigned
    /\ proverTasks.call.out.err = "alreadyAssigned"

====
